---- MODULE Spec2Model ----
(***************************************************************************)
(* Model of the animation engine of migrate-opencv:                        *)
(*   src/migration/core/Animation.js  (Animation, Sequence, Parallel)      *)
(*   src/migration/core/Easing.js     (AnimationTransition)                *)
(*   src/unnamed/part_004             (AnimationHandler, Kivg)             *)
(* JavaScript numbers are modelled as exact rationals (records n/d), so    *)
(* floating-point rounding is outside the model.  Time is in seconds.      *)
(***************************************************************************)
EXTENDS Integers, Sequences, FiniteSets, TLC

VARIABLES
    kind,        \* class of each compound animation: "seq" | "par"
    widgets,     \* this._widgets of every animation: uid -> session data
    callbacks,   \* this._onCompleteCallbacks of every animation
    instances,   \* the module-level set _animationInstances
    target,      \* the properties of every widget (animation target)
    now,         \* the wall clock Date.now(), in clock steps
    options,     \* the constructor options of every primitive animation
    reported,    \* history: children that dispatched on_complete since the
                 \* compound's latest session on the widget was created
    last,        \* history: the latest top-level call and what it did
    calls,       \* history: the number of top-level calls issued so far
    through,     \* history: the animations start/stop/cancel were called on
    completions, \* history: the on_complete dispatches of every animation
    animList,    \* Kivg: the animation list handed to the frame sampler
    animType,    \* Kivg: 'seq' | 'par'
    holder,      \* Kivg.widget: the PropertyHolder the sampler writes
    initialValues, \* Kivg: the values captured before the first frame
    sampled,     \* history: the latest call of the sampler
    frames,      \* Kivg._frames: the frames of the latest generation
    handOverlay, \* Kivg._handDrawEnabled and the state of Kivg._handOverlay
    overlaid,    \* history: for each frame, whether the hand was overlaid on it
    tree,        \* the animation object built so far with add / and
    built,       \* history: the latest call that built it
    pathString,  \* the d value of the path element handed to the geometry stage
    elements,    \* the latest result of parsePath, or the exception it raised
    paths,       \* closedShapes[id][id + 'paths'] of the latest processPathData
    parsed,      \* history: the latest call on the path data
    written,     \* history: the commands a well-formed d string was written from
    strokes,     \* the elements stored under line<k> / bezier<k>, and the ones drawn
    pathData,    \* ShapeAnimator: the paths of a shape, each a list of elements
    context,     \* ShapeAnimator: direction, transition and duration of the reveal
    basePoint,   \* ShapeAnimator: the base point of the latest plan
    mesh,        \* the widget's <shapeId>_mesh_... properties
    shapeAnims,  \* the animated properties of the planned primitives, in order
    shaped,      \* history: the latest call of the shape animator
    closedShapes,   \* the loaded geometry: the sub-paths of every shape id
    animConfigList, \* the reveal requests handed to prepareShapeAnimations
    caller,      \* the properties of the caller that the planning has set
    planned      \* history: the latest prepareShapeAnimations and what it did

engineVars == <<widgets, callbacks, instances, target, now, reported, last, through,
                completions>>
samplerVars == <<animList, animType, holder, initialValues, sampled, frames,
                 handOverlay, overlaid>>
composeVars == <<tree, built>>
parserVars == <<pathString, elements, paths, parsed, written, strokes>>
planVars == <<closedShapes, animConfigList, caller, planned>>
shapeVars == <<pathData, context, basePoint, mesh, shapeAnims, shaped, planVars>>
otherVars == <<composeVars, parserVars, shapeVars>>
vars == <<kind, options, calls, engineVars, samplerVars, otherVars>>

(***************************************************************************)
(* Bounds of the model.                                                    *)
(***************************************************************************)
MaxTime == 2          \* the clock stops after this many clock steps
StepsPerSecond == 1   \* clock steps per second (resolution of Date.now())
MaxCalls == 4         \* top-level calls issued in one behaviour
MaxSampleSteps == 7   \* sample times are 0..MaxSampleSteps sample steps
SampleDen == 2        \* sample steps per second
MaxFps == 3           \* frame rates are 1..MaxFps
MaxSamplerCalls == 2  \* calls of the sampler and the generators in one behaviour
MaxDt == 1            \* the caller's dt argument ranges over 0..MaxDt

(***************************************************************************)
(* JavaScript values: numbers (rationals n/d), arrays of values, undefined,*)
(* NaN and non-numeric strings.                                            *)
(***************************************************************************)
Abs(x) == IF x < 0 THEN -x ELSE x

RECURSIVE GCD(_, _)
GCD(x, y) == IF y = 0 THEN x ELSE GCD(y, x % y)

Num(n, d) ==
    LET s == IF d < 0 THEN -1 ELSE 1
        g == GCD(Abs(n), Abs(d))
    IN  [k |-> "num", n |-> (s * n) \div g, d |-> (s * d) \div g, v |-> <<>>]

Int2Num(i) == [k |-> "num", n |-> i, d |-> 1, v |-> <<>>]
Arr(items) == [k |-> "arr", n |-> 0, d |-> 1, v |-> items]
Undefined == [k |-> "undefined", n |-> 0, d |-> 1, v |-> <<>>]
NaN == [k |-> "nan", n |-> 0, d |-> 1, v |-> <<>>]
Str == [k |-> "string", n |-> 0, d |-> 1, v |-> <<>>]

IsNum(x) == x.k = "num"
RAdd(x, y) == Num(x.n * y.d + y.n * x.d, x.d * y.d)
RSub(x, y) == Num(x.n * y.d - y.n * x.d, x.d * y.d)
RMul(x, y) == Num(x.n * y.n, x.d * y.d)
RDiv(x, y) == Num(x.n * y.d, x.d * y.n)
RLess(x, y) == x.n * y.d < y.n * x.d
RLeq(x, y) == x.n * y.d <= y.n * x.d
RMin(x, y) == IF RLess(y, x) THEN y ELSE x
RMax(x, y) == IF RLess(x, y) THEN y ELSE x
Zero == Int2Num(0)
One == Int2Num(1)

(***************************************************************************)
(* The animation objects.  Three primitives and the left-nested tree that  *)
(* add/and build from them: ab = a.add(b) | a.and(b), abc = ab.add(c) |    *)
(* ab.and(c).                                                              *)
(***************************************************************************)
Prims == {"a", "b", "c"}
Comps == {"ab", "abc"}
Anims == Prims \cup Comps
Widgets == {"w1", "w2"}

anim1(n) == IF n = "ab" THEN "a" ELSE "ab"
anim2(n) == IF n = "ab" THEN "b" ELSE "c"
Parent(n) == IF n \in {"a", "b"} THEN "ab" ELSE "abc"
HasParent(n) == n # "abc"

RECURSIVE Descendants(_)
Descendants(n) ==
    IF n \in Prims THEN {}
    ELSE {anim1(n), anim2(n)} \cup Descendants(anim1(n)) \cup Descendants(anim2(n))

(***************************************************************************)
(* Animation constructor: duration, transition, animated properties.       *)
(***************************************************************************)
DefaultDuration == 1

Truthy(x) ==
    CASE x.k = "num" -> x.n # 0
      [] x.k = "arr" -> TRUE
      [] x.k = "string" -> TRUE
      [] OTHER -> FALSE

\* this._duration = options.d || options.duration || 1.0
Duration(n) == IF Truthy(options[n].d) THEN options[n].d ELSE Int2Num(DefaultDuration)

\* the names of AnimationTransition that the model carries
TransitionNames == {"linear", "in_quad", "out_quad"}

\* AnimationTransition[transitionName] || AnimationTransition.linear
TransitionOf(n) == IF options[n].t \in TransitionNames THEN options[n].t ELSE "linear"

linear(progress) == progress
in_quad(progress) == RMul(progress, progress)
out_quad(progress) == RMul(RMul(Int2Num(-1), progress), RSub(progress, Int2Num(2)))

Transition(n, progress) ==
    CASE TransitionOf(n) = "linear" -> linear(progress)
      [] TransitionOf(n) = "in_quad" -> in_quad(progress)
      [] TransitionOf(n) = "out_quad" -> out_quad(progress)

\* the animated properties: key -> target value
AnimatedProperties(n) == options[n].props

\* Sequence.repeat is set to false by the constructor and by nothing else
Repeat(n) == FALSE

\* get duration() of Sequence and Parallel
RECURSIVE DurationOf(_)
DurationOf(n) ==
    IF n \in Prims THEN Duration(n)
    ELSE IF kind[n] = "seq" THEN RAdd(DurationOf(anim1(n)), DurationOf(anim2(n)))
    ELSE RMax(DurationOf(anim1(n)), DurationOf(anim2(n)))

(***************************************************************************)
(* Interpolation.                                                          *)
(***************************************************************************)
\* a * (1 - t) + b * t on JavaScript values that are not arrays
Mix(a, b, t) ==
    IF IsNum(a) /\ IsNum(b) THEN RAdd(RMul(a, RSub(One, t)), RMul(b, t)) ELSE NaN

\* b[i] of a value b (1-based here)
Index(b, i) == IF b.k = "arr" /\ i <= Len(b.v) THEN b.v[i] ELSE Undefined

RECURSIVE _calculate(_, _, _)
_calculate(a, b, t) ==
    IF a.k = "arr"
    THEN Arr([i \in 1..Len(a.v) |-> _calculate(a.v[i], Index(b, i), t)])
    ELSE Mix(a, b, t)

(***************************************************************************)
(* The engine state threaded through one top-level call.                   *)
(***************************************************************************)
Null == [k |-> "null", n |-> 0, d |-> 1, v |-> <<>>]
NoProps == [key \in {} |-> Undefined]
NoSessions == [w \in {} |-> Undefined]
Remove(f, x) == [y \in DOMAIN f \ {x} |-> f[y]]
Put(f, x, val) == [y \in DOMAIN f \cup {x} |-> IF y = x THEN val ELSE f[y]]

\* _getWidgetId: the uid stored on the widget at its first use identifies it
_getWidgetId(w) == w

Has(s, n, w) == _getWidgetId(w) \in DOMAIN s.widgets[n]
Live(s, w) == {n \in Anims : Has(s, n, w)}
Clock(steps) == Num(steps, StepsPerSecond)

Engine(wd, cb, inst, tg, rep, clock) ==
    [widgets |-> wd, callbacks |-> cb, instances |-> inst, target |-> tg,
     reported |-> rep, now |-> clock,
     fired |-> <<>>, started |-> <<>>, stack |-> <<>>,
     ret |-> FALSE, wrote |-> {}, progress |-> Null]

RECURSIVE Start(_, _, _), Stop(_, _, _), Cancel(_, _, _),
          DispatchOnComplete(_, _, _), RunCallbacks(_, _, _, _)

\* _dispatch('on_start', widget): the library binds no on_start listener; the
\* dispatch is recorded with the session state it happens in
DispatchOnStart(s, n, w) ==
    [s EXCEPT !.started = Append(@,
        [a |-> n, w |-> w, stack |-> s.stack, live |-> Live(s, w),
         snap |-> s.widgets[n][w].properties, at |-> s.target[w]])]

\* Animation._initialize
_initialize(s, n, w) ==
    LET props == [key \in DOMAIN AnimatedProperties(n) |->
                     [from |-> IF key \in DOMAIN s.target[w] THEN s.target[w][key]
                               ELSE Undefined,
                      to |-> AnimatedProperties(n)[key]]]
    IN  [s EXCEPT !.widgets[n] = Put(@, _getWidgetId(w),
            [properties |-> props, startTime |-> Null, complete |-> 0])]

\* variant of Animation.cancel that notifies the on_complete listeners
AnimationCancelNotifies(s, n, w) ==
    LET ws == Remove(s.widgets[n], _getWidgetId(w))
        s1 == [s EXCEPT !.widgets[n] = ws,
                        !.instances = IF DOMAIN ws = {} THEN @ \ {n} ELSE @]
    IN  IF Has(s, n, w) THEN DispatchOnComplete(s1, n, w) ELSE s1

\* Animation.cancel
AnimationCancel(s, n, w) ==
    LET ws == Remove(s.widgets[n], _getWidgetId(w))
    IN  [s EXCEPT !.widgets[n] = ws,
                  !.instances = IF DOMAIN ws = {} THEN @ \ {n} ELSE @]

\* Animation.stop
AnimationStop(s, n, w) ==
    LET s1 == IF Has(s, n, w)
              THEN DispatchOnComplete(
                       [s EXCEPT !.widgets[n] = Remove(@, _getWidgetId(w))], n, w)
              ELSE s
    IN  Cancel(s1, n, w)

\* Animation.start
AnimationStart(s, n, w) ==
    LET s1 == Stop(s, n, w)
        s2 == _initialize(s1, n, w)
        s3 == [s2 EXCEPT !.instances = @ \cup {n}]
    IN  DispatchOnStart(s3, n, w)

CompoundSession(s, n, w) ==
    [s EXCEPT !.widgets[n] = Put(@, _getWidgetId(w),
                  [properties |-> NoProps, startTime |-> Null, complete |-> 0]),
              !.reported[n][w] = {},
              !.instances = @ \cup {n}]

Bind(s, n, type, owner) ==
    [s EXCEPT !.callbacks[n] = Append(@, [type |-> type, owner |-> owner])]

\* Sequence.start
SequenceStart(s, n, w) ==
    LET s1 == Stop(s, n, w)
        s2 == DispatchOnStart(CompoundSession(s1, n, w), n, w)
        s3 == Bind(s2, anim1(n), "onAnim1Complete", n)
        s4 == Bind(s3, anim2(n), "onAnim2Complete", n)
    IN  Start(s4, anim1(n), w)

\* Sequence.stop
SequenceStop(s, n, w) ==
    IF Has(s, n, w)
    THEN LET s1 == [s EXCEPT !.widgets[n] = Remove(@, _getWidgetId(w))]
             s2 == Stop(s1, anim1(n), w)
             s3 == Stop(s2, anim2(n), w)
         IN  DispatchOnComplete(s3, n, w)
    ELSE s

\* variant of Sequence.cancel that forgets the second child
SequenceCancelFirstOnly(s, n, w) ==
    LET s1 == [s EXCEPT !.widgets[n] = Remove(@, _getWidgetId(w))]
        s2 == Cancel(s1, anim1(n), w)
    IN  [s2 EXCEPT !.instances = @ \ {n}]

\* Sequence.cancel
SequenceCancel(s, n, w) ==
    LET s1 == [s EXCEPT !.widgets[n] = Remove(@, _getWidgetId(w))]
        s2 == Cancel(s1, anim1(n), w)
        s3 == Cancel(s2, anim2(n), w)
    IN  [s3 EXCEPT !.instances = @ \ {n}]

\* Parallel.start
ParallelStart(s, n, w) ==
    LET s1 == Stop(s, n, w)
        s2 == DispatchOnStart(CompoundSession(s1, n, w), n, w)
        s3 == Bind(s2, anim1(n), "onAnimComplete", n)
        s4 == Bind(s3, anim2(n), "onAnimComplete", n)
        s5 == Start(s4, anim1(n), w)
    IN  Start(s5, anim2(n), w)

\* Parallel.stop
ParallelStop(s, n, w) ==
    LET s1 == IF Has(s, n, w)
              THEN DispatchOnComplete(
                       [s EXCEPT !.widgets[n] = Remove(@, _getWidgetId(w))], n, w)
              ELSE s
        s2 == Cancel(s1, anim1(n), w)
        s3 == Cancel(s2, anim2(n), w)
    IN  [s3 EXCEPT !.instances = @ \ {n}]

\* Parallel.cancel
ParallelCancel(s, n, w) ==
    LET s1 == [s EXCEPT !.widgets[n] = Remove(@, _getWidgetId(w))]
        s2 == Cancel(s1, anim1(n), w)
        s3 == Cancel(s2, anim2(n), w)
    IN  [s3 EXCEPT !.instances = @ \ {n}]

\* variant of onAnim1Complete without the session check
onAnim1CompleteUnguarded(s, owner, w) == Start(s, anim2(owner), w)

\* the closures bound by Sequence.start and Parallel.start
onAnim1Complete(s, owner, w) ==
    IF Has(s, owner, w) THEN Start(s, anim2(owner), w) ELSE s

\* variant of onAnim2Complete that ends the sequence without its signal
onAnim2CompleteSilent(s, owner, w) ==
    IF ~Has(s, owner, w) THEN s ELSE Cancel(s, owner, w)

onAnim2Complete(s, owner, w) ==
    IF ~Has(s, owner, w) THEN s
    ELSE IF Repeat(owner) THEN Start(s, anim1(owner), w)
    ELSE Cancel(DispatchOnComplete(s, owner, w), owner, w)

onAnimComplete(s, owner, w) ==
    IF Has(s, owner, w)
    THEN LET s1 == [s EXCEPT !.widgets[owner][_getWidgetId(w)].complete = @ + 1]
         IN  IF s1.widgets[owner][_getWidgetId(w)].complete >= 2
             THEN Stop(s1, owner, w)
             ELSE s1
    ELSE s

Invoke(s, cb, w) ==
    CASE cb.type = "onAnim1Complete" -> onAnim1Complete(s, cb.owner, w)
      [] cb.type = "onAnim2Complete" -> onAnim2Complete(s, cb.owner, w)
      [] cb.type = "onAnimComplete" -> onAnimComplete(s, cb.owner, w)

\* this._onCompleteCallbacks.forEach(cb => cb(this, widget))
RunCallbacks(s, cbs, i, w) ==
    IF i > Len(cbs) THEN s ELSE RunCallbacks(Invoke(s, cbs[i], w), cbs, i + 1, w)

\* _dispatch('on_complete', widget)
DispatchOnComplete(s, n, w) ==
    LET ev == [a |-> n, w |-> w, stack |-> s.stack,
               rep |-> IF n \in Comps THEN s.reported[n][w] ELSE {}]
        s1 == [s EXCEPT !.fired = Append(@, ev),
                        !.stack = Append(@, [a |-> n, live |-> Live(s, w)]),
                        !.reported = IF HasParent(n)
                                     THEN [@ EXCEPT ![Parent(n)][w] = @ \cup {n}]
                                     ELSE @]
        s2 == RunCallbacks(s1, s.callbacks[n], 1, w)
    IN  [s2 EXCEPT !.stack = s.stack]

\* the virtual calls anim.start / anim.stop / anim.cancel
Start(s, n, w) ==
    IF n \in Prims THEN AnimationStart(s, n, w)
    ELSE IF kind[n] = "seq" THEN SequenceStart(s, n, w)
    ELSE ParallelStart(s, n, w)

Stop(s, n, w) ==
    IF n \in Prims THEN AnimationStop(s, n, w)
    ELSE IF kind[n] = "seq" THEN SequenceStop(s, n, w)
    ELSE ParallelStop(s, n, w)

Cancel(s, n, w) ==
    IF n \in Prims THEN AnimationCancel(s, n, w)
    ELSE IF kind[n] = "seq" THEN SequenceCancel(s, n, w)
    ELSE ParallelCancel(s, n, w)

\* variant of _update that does not end the session at progress 1
_updateKeepsSession(s, n, dt, w) ==
    IF ~Has(s, n, w) THEN [s EXCEPT !.ret = FALSE]
    ELSE
    LET anim == s.widgets[n][_getWidgetId(w)]
        startTime == IF anim.startTime = Null THEN s.now ELSE anim.startTime
        progress == IF RLess(Zero, Duration(n))
                    THEN RMin(One, RDiv(RSub(s.now, startTime), Duration(n)))
                    ELSE One
        s1 == [s EXCEPT
                 !.widgets[n][_getWidgetId(w)].startTime = startTime,
                 !.target[w] = [key \in DOMAIN @ \cup DOMAIN anim.properties |->
                                  IF key \in DOMAIN anim.properties
                                  THEN _calculate(anim.properties[key].from,
                                                  anim.properties[key].to,
                                                  Transition(n, progress))
                                  ELSE @[key]],
                 !.wrote = DOMAIN anim.properties,
                 !.progress = progress]
    IN  [s1 EXCEPT !.ret = RLess(progress, One)]

\* Animation._update on a primitive; dt is the caller's argument
_update(s, n, dt, w) ==
    IF ~Has(s, n, w) THEN [s EXCEPT !.ret = FALSE]
    ELSE
    LET anim == s.widgets[n][_getWidgetId(w)]
        startTime == IF anim.startTime = Null THEN s.now ELSE anim.startTime
        elapsed == RSub(s.now, startTime)
        progress == IF RLess(Zero, Duration(n))
                    THEN RMin(One, RDiv(elapsed, Duration(n)))
                    ELSE One
        t == Transition(n, progress)
        s1 == [s EXCEPT
                 !.widgets[n][_getWidgetId(w)].startTime = startTime,
                 !.target[w] = [key \in DOMAIN @ \cup DOMAIN anim.properties |->
                                  IF key \in DOMAIN anim.properties
                                  THEN _calculate(anim.properties[key].from,
                                                  anim.properties[key].to, t)
                                  ELSE @[key]],
                 !.wrote = DOMAIN anim.properties,
                 !.progress = progress]
    IN  IF RLeq(One, progress)
        THEN [Stop(s1, n, w) EXCEPT !.ret = FALSE]
        ELSE [s1 EXCEPT !.ret = TRUE]


(***************************************************************************)
(* The interactive engine: top-level calls on any animation and widget.    *)
(***************************************************************************)
\* constructor options of the three primitives that the behaviours start from
OptionChoices ==
    {[a |-> [d |-> da, t |-> "linear", props |-> ("x" :> Int2Num(10))],
      b |-> [d |-> Int2Num(1), t |-> tb, props |-> ("x" :> Int2Num(0))],
      c |-> [d |-> Int2Num(1), t |-> "linear",
             props |-> ("pos" :> Arr(<<Int2Num(2), Int2Num(4)>>))]] :
        da \in {Int2Num(2)}, tb \in {"in_quad"}}

\* the properties the widgets hold before any animation runs
InitialTarget ==
    [w \in Widgets |->
        ("x" :> (IF w = "w1" THEN Zero ELSE Int2Num(4))
         @@ "pos" :> Arr(<<Zero, Zero>>))]

NoCall ==
    [op |-> "none", a |-> "a", w |-> "w1", dt |-> 0, ret |-> FALSE,
     fired |-> <<>>, started |-> <<>>, live0 |-> {}, wrote |-> {}, progress |-> Null]

NoSample ==
    [op |-> "none", a |-> "a", t |-> Zero, idx |-> -1, before |-> NoProps, fill |-> FALSE,
     fps |-> 0]

\* this._handDrawEnabled = false and this._handOverlay = null
NoOverlay == [enabled |-> FALSE, state |-> "none"]

SamplerIdle ==
    /\ animList = <<>>
    /\ animType = "seq"
    /\ holder = NoProps
    /\ initialValues = NoProps
    /\ sampled = NoSample
    /\ frames = <<>>
    /\ handOverlay = NoOverlay
    /\ overlaid = <<>>

NoTree == [op |-> "none", a |-> "a", kids |-> <<>>]
NotBuilt == [op |-> "none", list |-> <<>>, sequential |-> FALSE]

ComposeIdle ==
    /\ tree = NoTree
    /\ built = NotBuilt

\* no line<k> or bezier<k> property on the widget, nothing drawn
NotStroked ==
    [op |-> "none", line |-> <<>>, bezier |-> <<>>, drawn |-> <<>>]

ParserIdle ==
    /\ strokes = NotStroked
    /\ pathString = [null |-> FALSE, chars |-> <<>>]
    /\ elements = <<>>
    /\ paths = <<>>
    /\ parsed = [op |-> "none", raised |-> FALSE]
    /\ written = <<>>

NoContext == [direction |-> "none", transition |-> "linear"]
NotShaped == [op |-> "none", progress |-> Zero, list |-> <<>>, result |-> Null]

NotPlanned == [op |-> "none", raised |-> FALSE, animationList |-> <<>>, steps |-> <<>>]

PlanIdle ==
    /\ closedShapes = NoProps
    /\ animConfigList = <<>>
    /\ caller = NoProps
    /\ planned = NotPlanned

ShapeIdle ==
    /\ pathData = <<>>
    /\ context = NoContext
    /\ basePoint = Null
    /\ mesh = NoProps
    /\ shapeAnims = <<>>
    /\ shaped = NotShaped
    /\ PlanIdle

OthersIdle == ComposeIdle /\ ParserIdle /\ ShapeIdle

EngineInit ==
    /\ widgets = [n \in Anims |-> NoSessions]
    /\ callbacks = [n \in Anims |-> <<>>]
    /\ instances = {}
    /\ target = InitialTarget
    /\ now = 0
    /\ reported = [n \in Comps |-> [w \in Widgets |-> {}]]
    /\ last = NoCall
    /\ calls = 0
    /\ through = {}
    /\ completions = [n \in Anims |-> 0]

Init ==
    /\ kind \in [Comps -> {"seq", "par"}]
    /\ options \in OptionChoices
    /\ EngineInit
    /\ SamplerIdle
    /\ OthersIdle

Current == Engine(widgets, callbacks, instances, target, reported, Clock(now))

Commit(s, op, n, w, dt) ==
    /\ calls' = calls + 1
    /\ widgets' = s.widgets
    /\ callbacks' = s.callbacks
    /\ instances' = s.instances
    /\ target' = s.target
    /\ reported' = s.reported
    /\ last' = [op |-> op, a |-> n, w |-> w, dt |-> dt, ret |-> s.ret,
                fired |-> s.fired, started |-> s.started,
                live0 |-> {m \in Anims : w \in DOMAIN widgets[m]},
                wrote |-> s.wrote, progress |-> s.progress]
    /\ UNCHANGED <<kind, options, now, completions, samplerVars, otherVars>>

CallStart(n, w) ==
    /\ calls < MaxCalls
    /\ Commit(Start(Current, n, w), "start", n, w, 0)
    /\ through' = through \cup {n}

CallStop(n, w) ==
    /\ calls < MaxCalls
    /\ Commit(Stop(Current, n, w), "stop", n, w, 0)
    /\ through' = through \cup {n}

CallCancel(n, w) ==
    /\ calls < MaxCalls
    /\ Commit(Cancel(Current, n, w), "cancel", n, w, 0)
    /\ through' = through \cup {n}

CallUpdate(n, dt, w) ==
    /\ calls < MaxCalls
    /\ Commit(_update(Current, n, dt, w), "update", n, w, dt)
    /\ UNCHANGED through

\* time passes between two calls
Tick ==
    /\ now < MaxTime
    /\ now' = now + 1
    /\ last' = NoCall
    /\ UNCHANGED <<kind, options, widgets, callbacks, instances, target, reported, calls, through,
                   completions, samplerVars, otherVars>>

Next ==
    \/ \E n \in Anims, w \in {"w1"} : CallStart(n, w)
    \/ \E n \in Anims, w \in {"w1"} : CallStop(n, w)
    \/ \E n \in Anims, w \in {"w1"} : CallCancel(n, w)
    \/ \E n \in Prims, dt \in 0..MaxDt, w \in {"w1"} : CallUpdate(n, dt, w)
    \/ Tick

Spec == Init /\ [][Next]_vars

(***************************************************************************)
(* Claims about the interactive engine (specification Spec).               *)
(***************************************************************************)
StartedEvents == {last.started[i] : i \in 1..Len(last.started)}
FiredEvents == {last.fired[i] : i \in 1..Len(last.fired)}
LiveNow(w) == {m \in Anims : w \in DOMAIN widgets[m]}
SecondOfSequence(n) == HasParent(n) /\ kind[Parent(n)] = "seq" /\ n = anim2(Parent(n))
DirectStart(e) == last.op = "start" /\ last.a = e.a /\ e.stack = <<>>

\* C1: the second child of a Sequence is started by the library only while
\* the first child's completion is being dispatched, that dispatch happened
\* with the Sequence holding a live session on the target, and the
\* snapshot of the second child is the target's property values at the
\* moment of that start.
C1_SequenceContinuation ==
    \A e \in StartedEvents :
        (SecondOfSequence(e.a) /\ ~DirectStart(e)) =>
            /\ e.stack # <<>>
            /\ e.stack[Len(e.stack)].a = anim1(Parent(e.a))
            /\ Parent(e.a) \in e.stack[Len(e.stack)].live
            /\ e.a \in Prims =>
                 \A key \in DOMAIN e.snap : e.snap[key].from = e.at[key]

\* a was advanced to its end, b was started from a's final value 10
C1_Witness ==
    /\ kind["ab"] = "seq"
    /\ last.op = "update" /\ last.a = "a" /\ last.progress = One
    /\ \E e \in StartedEvents :
          e.a = "b" /\ e.snap["x"].from = Int2Num(10) /\ e.at["x"] = Int2Num(10)

\* C2: when start, stop and cancel are called on the Parallel only (and the
\* children are advanced), a Parallel's completion that is triggered by a
\* child's completion fires only after both children reported completion
\* since the Parallel's most recent start.
C2_ParallelNeedsBoth ==
    \A e \in FiredEvents :
        (e.a \in Comps /\ kind[e.a] = "par" /\ through \subseteq {e.a}
            /\ e.stack # <<>>
            /\ e.stack[Len(e.stack)].a \in {anim1(e.a), anim2(e.a)})
        => e.rep = {anim1(e.a), anim2(e.a)}

\* C3: cancel dispatches no on_complete and starts nothing.
C3_CancelIsSilent ==
    last.op = "cancel" => (last.fired = <<>> /\ last.started = <<>>)

\* the running first child of a live Sequence is cancelled
C3_Witness ==
    /\ last.op = "cancel" /\ last.a = "a" /\ kind["ab"] = "seq"
    /\ {"a", "ab"} \subseteq last.live0
    /\ "ab" \in LiveNow(last.w) /\ "b" \notin LiveNow(last.w)

\* C4: after cancel on a compound, neither it nor any descendant holds a
\* session on the target.
C4_CancelRecursive ==
    (last.op = "cancel" /\ last.a \in Comps) =>
        LiveNow(last.w) \cap ({last.a} \cup Descendants(last.a)) = {}

\* a nested compound with running descendants is cancelled
C4_Witness ==
    /\ last.op = "cancel" /\ last.a = "abc"
    /\ {"abc", "ab", "b", "c"} \subseteq last.live0
    /\ LiveNow(last.w) = {}

\* C5: start on an animation that has a live session on the target ends the
\* prior session without dispatching its on_complete, and leaves one session.
C5_RestartCancels ==
    (last.op = "start" /\ last.a \in last.live0) =>
        /\ \A e \in FiredEvents : ~(e.a = last.a /\ e.w = last.w)
        /\ last.a \in LiveNow(last.w)

\* C6: an advance of a primitive with a live session returns true and
\* dispatches nothing while progress < 1; when progress reaches 1 it
\* returns false, dispatches on_complete exactly once and ends the session;
\* an advance without a session returns false, writes and dispatches nothing.
OwnCompletions == {i \in 1..Len(last.fired) :
                      last.fired[i].a = last.a /\ last.fired[i].w = last.w}

C6_AdvanceCompletesOnce ==
    last.op = "update" =>
        IF last.a \notin last.live0
        THEN last.ret = FALSE /\ last.wrote = {} /\ last.fired = <<>>
        ELSE IF RLess(last.progress, One)
        THEN last.ret = TRUE /\ last.fired = <<>> /\ last.a \in LiveNow(last.w)
        ELSE /\ last.ret = FALSE
             /\ Cardinality(OwnCompletions) = 1
             /\ last.a \notin LiveNow(last.w)

\* an advance after the run completed
C6_Witness ==
    /\ last.op = "update" /\ last.a = "a" /\ last.a \notin last.live0
    /\ target[last.w]["x"] = Int2Num(10)

C6_WitnessCompletes ==
    /\ last.op = "update" /\ last.a = "a" /\ last.progress = One
    /\ Cardinality(OwnCompletions) = 1

\* C7: the progress an advance applies is clamp(dt / duration, 0, 1) of the
\* caller's dt.
Clamp01(x) == RMin(One, RMax(Zero, x))

C7_ProgressFromArgument ==
    (last.op = "update" /\ last.a \in last.live0) =>
        last.progress = Clamp01(RDiv(Int2Num(last.dt), Duration(last.a)))

(***************************************************************************)
(* Kivg: the frame sampler (_updateAnimationState) and the frame           *)
(* generation (_generateAnimationFrames).  Arrays hold two items here.     *)
(***************************************************************************)
FillDuration == Num(2, 5)
FILL_COMPLETION_THRESHOLD == Num(99, 100)

\* widget[key]
Get(wdg, key) == IF key \in DOMAIN wdg THEN wdg[key] ELSE Undefined

\* x || 0
OrZero(x) == IF Truthy(x) THEN x ELSE Zero

\* const value = startVal + (target - startVal) * t, with the conversions
\* JavaScript applies: the difference with an array, undefined or a string is
\* NaN, and + with an array or a string on the left concatenates strings
value(startVal, targetVal, t) ==
    LET diff == IF IsNum(targetVal) /\ IsNum(startVal)
                THEN RSub(targetVal, startVal) ELSE NaN
        prod == IF IsNum(diff) /\ IsNum(t) THEN RMul(diff, t) ELSE NaN
    IN  IF startVal.k \in {"arr", "string"} THEN Str
        ELSE IF IsNum(startVal) /\ IsNum(prod) THEN RAdd(startVal, prod)
        ELSE NaN

\* Math.min(1.0, Math.max(0.0, progress))
Clamp(progress) == RMin(One, RMax(Zero, progress))

\* the sequential branch: the loop over animList from idx on
RECURSIVE SequentialState(_, _, _, _, _, _, _)
SequentialState(wdg, list, currentTime, init, idx, elapsed, completedValues) ==
    IF idx > Len(list) THEN [widget |-> wdg, idx |-> -1]
    ELSE
    LET anim == list[idx]
        props == AnimatedProperties(anim)
        animEndTime == RAdd(elapsed, Duration(anim))
        localProgress == Clamp(IF RLess(Zero, Duration(anim))
                               THEN RDiv(RSub(currentTime, elapsed), Duration(anim))
                               ELSE One)
        t == Transition(anim, localProgress)
        startVal(key) == IF Get(completedValues, key) # Undefined
                         THEN completedValues[key]
                         ELSE OrZero(Get(init, key))
    IN  IF RLess(currentTime, elapsed) THEN [widget |-> wdg, idx |-> -1]
        ELSE IF RLess(currentTime, animEndTime)
        THEN [widget |-> [key \in DOMAIN wdg \cup DOMAIN props |->
                             IF key \in DOMAIN props
                             THEN value(startVal(key), props[key], t)
                             ELSE wdg[key]],
              idx |-> idx - 1]
        ELSE SequentialState(
                 [key \in DOMAIN wdg \cup DOMAIN props |->
                     IF key \in DOMAIN props THEN props[key] ELSE wdg[key]],
                 list, currentTime, init, idx + 1, animEndTime,
                 [key \in DOMAIN completedValues \cup DOMAIN props |->
                     IF key \in DOMAIN props THEN props[key]
                     ELSE completedValues[key]])

\* the parallel branch: the loop over animList from idx on
RECURSIVE ParallelState(_, _, _, _, _, _)
ParallelState(wdg, list, currentTime, init, idx, currentAnimIdx) ==
    IF idx > Len(list) THEN [widget |-> wdg, idx |-> currentAnimIdx]
    ELSE
    LET anim == list[idx]
        props == AnimatedProperties(anim)
        progress == Clamp(IF RLess(Zero, Duration(anim))
                          THEN RDiv(currentTime, Duration(anim))
                          ELSE One)
        t == Transition(anim, progress)
    IN  ParallelState(
            [key \in DOMAIN wdg \cup DOMAIN props |->
                IF key \in DOMAIN props
                THEN value(OrZero(Get(init, key)), props[key], t)
                ELSE wdg[key]],
            list, currentTime, init, idx + 1,
            IF RLess(progress, One) THEN idx - 1 ELSE currentAnimIdx)

\* Kivg._updateAnimationState: the widget it leaves and the index it returns
_updateAnimationState(wdg, list, currentTime, type, init) ==
    IF type = "seq"
    THEN SequentialState(wdg, list, currentTime, init, 1, Zero, init)
    ELSE ParallelState(wdg, list, currentTime, init, 1, -1)

RECURSIVE SumOfDurations(_, _)
SumOfDurations(list, i) ==
    IF i > Len(list) THEN Zero ELSE RAdd(Duration(list[i]), SumOfDurations(list, i + 1))

RECURSIVE MaxOfDurations(_, _)
MaxOfDurations(list, i) ==
    IF i = Len(list) THEN Duration(list[i])
    ELSE RMax(Duration(list[i]), MaxOfDurations(list, i + 1))

\* Math.floor
Floor(x) == x.n \div x.d

\* the duration of the strokes: the sum in 'seq', the maximum otherwise
strokeDuration(list, type) ==
    IF type = "seq" THEN SumOfDurations(list, 1) ELSE MaxOfDurations(list, 1)

totalDuration(list, type, fill) ==
    IF fill THEN RAdd(strokeDuration(list, type), FillDuration)
    ELSE strokeDuration(list, type)

numFrames(list, type, fill, fps) ==
    LET n == Floor(RMul(totalDuration(list, type, fill), Int2Num(fps)))
    IN  IF n < 1 THEN 1 ELSE n

\* initialValues[key] = this.widget[key] || 0 for every animated key
InitialValuesOf(list, wdg) ==
    [key \in UNION {DOMAIN AnimatedProperties(list[i]) : i \in 1..Len(list)} |->
        OrZero(Get(wdg, key))]

\* one pass of the frame loop: the sample, then the layers drawn on the
\* cleared canvas (fillUpShapes draws "fill", updateCanvas draws "strokes")
Frame(wdg, list, type, fill, init, frameIdx, count, total) ==
    LET progress == IF count > 0 THEN Num(frameIdx, count) ELSE One
        currentTime == RMul(progress, total)
        st == _updateAnimationState(wdg, list, currentTime, type, init)
        fillStartTime == IF fill THEN RSub(total, FillDuration) ELSE total
        fillProgress == RDiv(RSub(currentTime, fillStartTime), FillDuration)
        filling == fill /\ RLeq(fillStartTime, currentTime)
        layers == IF filling
                  THEN IF RLess(fillProgress, FILL_COMPLETION_THRESHOLD)
                       THEN <<"fill", "strokes">> ELSE <<"fill">>
                  ELSE <<"strokes">>
        after == IF filling THEN Put(st.widget, "mesh_opacity", RMin(One, fillProgress))
                 ELSE IF fill THEN Put(st.widget, "mesh_opacity", Zero)
                 ELSE st.widget
    IN  [progress |-> progress, time |-> currentTime, idx |-> st.idx,
         layers |-> layers, widget |-> after]

\* the frame loop from frameIdx up to and including last
RECURSIVE FrameLoop(_, _, _, _, _, _, _, _, _, _)
FrameLoop(wdg, list, type, fill, init, frameIdx, last_, count, total, acc) ==
    IF frameIdx > last_ THEN [frames |-> acc, widget |-> wdg]
    ELSE LET f == Frame(wdg, list, type, fill, init, frameIdx, count, total)
         IN  FrameLoop(f.widget, list, type, fill, init, frameIdx + 1, last_, count,
                       total, Append(acc, f))

\* variant of the frame loop that stops before frame numFrames
FrameLoopExclusive(wdg, list, type, fill, init, count, total) ==
    FrameLoop(wdg, list, type, fill, init, 0, count - 1, count, total, <<>>)

\* for (frameIdx = 0; frameIdx <= numFrames; frameIdx++)
FrameLoopAll(wdg, list, type, fill, init, count, total) ==
    FrameLoop(wdg, list, type, fill, init, 0, count, count, total, <<>>)

\* Kivg._generateAnimationFrames
_generateAnimationFrames(wdg, list, fill, fps, type) ==
    IF Len(list) = 0
    THEN [frames |-> <<[progress |-> One, time |-> Zero, idx |-> -1,
                        layers |-> IF fill THEN <<"fill">> ELSE <<"strokes">>,
                        widget |-> wdg]>>,
          widget |-> wdg, init |-> NoProps]
    ELSE LET init == InitialValuesOf(list, wdg)
             r == FrameLoopAll(wdg, list, type, fill, init,
                               numFrames(list, type, fill, fps),
                               totalDuration(list, type, fill))
         IN  [frames |-> r.frames, widget |-> r.widget, init |-> init]

\* Animation.animateSync without an onFrame callback: the loop from i on; a
\* frame is the progress pushed, with the time it stands for and the widget
RECURSIVE SyncLoop(_, _, _, _, _, _)
SyncLoop(wdg, n, init, i, count, acc) ==
    IF i > count THEN [frames |-> acc, widget |-> wdg]
    ELSE
    LET progress == IF count > 0 THEN Num(i, count) ELSE One
        t == Transition(n, progress)
        props == AnimatedProperties(n)
        after == [key \in DOMAIN wdg \cup DOMAIN props |->
                     IF key \in DOMAIN props
                     THEN _calculate(init[key], props[key], t)
                     ELSE wdg[key]]
    IN  SyncLoop(after, n, init, i + 1, count,
                 Append(acc, [progress |-> progress,
                              time |-> RMul(progress, Duration(n)),
                              idx |-> -1, layers |-> <<>>, widget |-> after]))

animateSync(wdg, n, fps) ==
    LET count == IF Floor(RMul(Duration(n), Int2Num(fps))) < 1 THEN 1
                 ELSE Floor(RMul(Duration(n), Int2Num(fps)))
        init == [key \in DOMAIN AnimatedProperties(n) |-> Get(wdg, key)]
    IN  SyncLoop(wdg, n, init, 0, count, <<>>)

\* key.endsWith('_end_x') on the property names of the model
EndsWithEndX(key) == key \in {"l_end_x"}

\* `${key.slice(0, -6)}_end_y`
EndYOf(key) == "l_end_y"

\* the position the loop over Object.keys(props) returns, or null; the
\* primitives of the model animate at most one property ending in _end_x
PositionOf(wdg, props) ==
    LET found == { key \in DOMAIN props :
                     /\ EndsWithEndX(key)
                     /\ Get(wdg, key) # Undefined
                     /\ Get(wdg, EndYOf(key)) # Undefined }
    IN  IF found = {} THEN Null
        ELSE LET key == CHOOSE key \in found : TRUE
             IN  Arr(<<Get(wdg, key), Get(wdg, EndYOf(key))>>)

\* Kivg._getCurrentDrawingPosition, before Math.floor of the coordinates
_getCurrentDrawingPosition(wdg, list, currentAnimIdx, type) ==
    IF currentAnimIdx < 0 THEN Null
    ELSE IF type = "seq"
         THEN IF currentAnimIdx >= Len(list) THEN Null
              ELSE PositionOf(wdg, AnimatedProperties(list[currentAnimIdx + 1]))
         ELSE IF Len(list) > 0
              THEN PositionOf(wdg, AnimatedProperties(list[Len(list)]))
              ELSE Null

\* handOverlay.isLoaded
isLoaded(ov) == ov.state = "loaded"

\* the overlay test of a frame of the frame loop
HandOnFrame(frame, list, type, ov) ==
    /\ ov.enabled
    /\ ov.state # "none"
    /\ isLoaded(ov)
    /\ RLess(frame.time, strokeDuration(list, type))
    /\ _getCurrentDrawingPosition(frame.widget, list, frame.idx, type) # Null

\* for each generated frame, whether overlayAtPosition was applied to it; the
\* single frame of an empty animation list is pushed before the loop
HandFlags(generated, list, type, ov) ==
    [i \in 1..Len(generated) |->
        IF Len(list) = 0 THEN FALSE ELSE HandOnFrame(generated[i], list, type, ov)]

(***************************************************************************)
(* The sampler driven on its own: any sample time in any order, and whole  *)
(* frame generations, on one PropertyHolder.                               *)
(***************************************************************************)
\* a and b animate the same scalar, c a scalar of its own or the pair pos;
\* a duration option of 0 is one the constructor replaces by its default
SamplerOptionChoices ==
    {[a |-> [d |-> da, t |-> "linear", props |-> ("x" :> Int2Num(10))],
      b |-> [d |-> Int2Num(1), t |-> "in_quad", props |-> ("x" :> Int2Num(0))],
      c |-> [d |-> Num(1, 2), t |-> "out_quad", props |-> pc]] :
        da \in {Zero, Int2Num(2)},
        pc \in {("y" :> Int2Num(4)), ("pos" :> Arr(<<Int2Num(2), Int2Num(4)>>))}}

AnimLists == {<<>>, <<"a">>, <<"a", "b">>, <<"a", "b", "c">>}

\* the PropertyHolder before any frame is sampled
InitialHolder ==
    "x" :> Int2Num(2) @@ "y" :> Zero @@ "pos" :> Arr(<<Zero, Zero>>)
    @@ "mesh_opacity" :> One

SamplerInit ==
    /\ options \in SamplerOptionChoices
    /\ animType \in {"seq", "par"}
    /\ kind = [n \in Comps |-> animType]
    /\ animList \in AnimLists
    /\ holder = InitialHolder
    /\ initialValues = InitialValuesOf(animList, InitialHolder)
    /\ sampled = NoSample
    /\ frames = <<>>
    /\ handOverlay = NoOverlay
    /\ overlaid = <<>>
    /\ EngineInit
    /\ OthersIdle

\* one call of _updateAnimationState at currentTime = step / SampleDen
SampleAt(step) ==
    LET currentTime == Num(step, SampleDen)
        st == _updateAnimationState(holder, animList, currentTime, animType,
                                    initialValues)
    IN  /\ calls < MaxSamplerCalls
        /\ calls' = calls + 1
        /\ holder' = st.widget
        /\ sampled' = [op |-> "sample", a |-> "a", t |-> currentTime, idx |-> st.idx,
                       before |-> holder, fill |-> FALSE, fps |-> 0]
        /\ UNCHANGED <<kind, options, engineVars, otherVars, animList, animType,
                       initialValues, frames, handOverlay, overlaid>>

\* the frame generation of Kivg with the hand overlay ov, recorded as the call op
GenerateWith(ov, op, fill, fps) ==
    \E r \in {_generateAnimationFrames(holder, animList, fill, fps, animType)} :
        /\ calls < MaxSamplerCalls
        /\ calls' = calls + 1
        /\ handOverlay' = ov
        /\ frames' = r.frames
        /\ holder' = r.widget
        /\ initialValues' = r.init
        /\ overlaid' = HandFlags(r.frames, animList, animType, ov)
        /\ sampled' = [op |-> op, a |-> "a", t |-> Zero, idx |-> -1,
                       before |-> holder, fill |-> fill, fps |-> fps]
        /\ UNCHANGED <<kind, options, engineVars, otherVars, animList, animType>>

\* one call of _generateAnimationFrames
GenerateFrames(fill, fps) == GenerateWith(handOverlay, "generate", fill, fps)

\* one call of animateSync on a primitive with the PropertyHolder as widget
AnimateSync(n, fps) ==
    LET r == animateSync(holder, n, fps)
    IN  /\ calls < MaxSamplerCalls
        /\ calls' = calls + 1
        /\ frames' = r.frames
        /\ holder' = r.widget
        /\ sampled' = [op |-> "animateSync", a |-> n, t |-> Zero, idx |-> -1,
                       before |-> holder, fill |-> FALSE, fps |-> fps]
        /\ overlaid' = [i \in 1..Len(r.frames) |-> FALSE]
        /\ UNCHANGED <<kind, options, engineVars, otherVars, animList, animType,
                       initialValues, handOverlay>>

\* the layers of the static rendering of Kivg.draw, drawn on the cleared canvas
StaticLayers(fill) == IF fill THEN <<"fill", "strokes">> ELSE <<"strokes">>

\* Kivg.draw without animate: the hand overlay is dropped and the static
\* rendering is kept as the only frame
DrawStatic(fill) ==
    /\ calls < MaxSamplerCalls
    /\ calls' = calls + 1
    /\ frames' = <<[progress |-> One, time |-> Zero, idx |-> -1,
                    layers |-> StaticLayers(fill), widget |-> holder]>>
    /\ sampled' = [op |-> "draw", a |-> "a", t |-> Zero, idx |-> -1,
                   before |-> holder, fill |-> fill, fps |-> 0]
    /\ handOverlay' = NoOverlay
    /\ overlaid' = <<FALSE>>
    /\ UNCHANGED <<kind, options, engineVars, otherVars, animList, animType, holder,
                   initialValues>>

SamplerNext ==
    \/ \E step \in 0..MaxSampleSteps : SampleAt(step)
    \/ \E fill \in BOOLEAN, fps \in 1..MaxFps : GenerateFrames(fill, fps)
    \/ \E n \in Prims, fps \in 1..MaxFps : AnimateSync(n, fps)
    \/ \E fill \in BOOLEAN : DrawStatic(fill)

SpecSampler == SamplerInit /\ [][SamplerNext]_vars

(***************************************************************************)
(* Claims about the frame sampler (specification SpecSampler).             *)
(***************************************************************************)
\* C9: a frame generation with total duration D at frame rate fps produces
\* the frames i = 0..N in order, N = max(1, floor(D * fps)), frame i at time
\* (i / N) * D; the times are strictly increasing, from 0 to D.
GeneratedDuration ==
    IF sampled.op = "animateSync" THEN Duration(sampled.a)
    ELSE IF sampled.fill
    THEN RAdd(strokeDuration(animList, animType), Num(2, 5))
    ELSE strokeDuration(animList, animType)

StartOf(i) == SumOfDurations(SubSeq(animList, 1, i - 1), 1)
EndOf(i) == RAdd(StartOf(i), Duration(animList[i]))
Ended(i, t) == RLeq(EndOf(i), t)
Contains(i, t) == RLeq(StartOf(i), t) /\ RLess(t, EndOf(i))
Animates(i, key) == key \in DOMAIN AnimatedProperties(animList[i])

\* a + (b - a) * t on numbers, item by item on arrays
RECURSIVE Interpolated(_, _, _)
Interpolated(a, b, t) ==
    IF a.k = "arr" /\ b.k = "arr" /\ Len(a.v) = Len(b.v)
    THEN Arr([i \in 1..Len(a.v) |-> Interpolated(a.v[i], b.v[i], t)])
    ELSE IF IsNum(a) /\ IsNum(b) THEN RAdd(a, RMul(RSub(b, a), t))
    ELSE NaN

\* the target of the latest child before i that animates key, else the
\* initial value
Baseline(i, key) ==
    LET earlier == {j \in 1..(i - 1) : Animates(j, key)}
    IN  IF earlier = {} THEN initialValues[key]
        ELSE AnimatedProperties(
                 animList[CHOOSE j \in earlier : \A m \in earlier : m <= j])[key]

\* what the sequential sample at time t is to leave in property key
SequentialValue(key, t) ==
    LET running == {i \in 1..Len(animList) : Contains(i, t) /\ Animates(i, key)}
        ended == {i \in 1..Len(animList) : Ended(i, t) /\ Animates(i, key)}
    IN  IF running # {}
        THEN LET i == CHOOSE i \in running : TRUE
             IN  Interpolated(Baseline(i, key), AnimatedProperties(animList[i])[key],
                     Transition(animList[i],
                         RDiv(RSub(t, StartOf(i)), Duration(animList[i]))))
        ELSE IF ended # {}
        THEN AnimatedProperties(
                 animList[CHOOSE j \in ended : \A m \in ended : m <= j])[key]
        ELSE sampled.before[key]

\* C8: after a sequential sample at time t, every property holds the value
\* of SequentialValue: the target of the latest ended child that animates
\* it, or the interpolation of the running child from the baseline, or,
\* when only later children animate it, the value it had before the sample.
C8_SequentialSampling ==
    (sampled.op = "sample" /\ animType = "seq") =>
        \A key \in DOMAIN holder : holder[key] = SequentialValue(key, sampled.t)

\* the same on the properties whose values are numbers
C8_SequentialSamplingOfNumbers ==
    (sampled.op = "sample" /\ animType = "seq") =>
        \A key \in DOMAIN holder :
            IsNum(InitialHolder[key]) => holder[key] = SequentialValue(key, sampled.t)

\* x: 2 -> 10 over 2 s, then x: 10 -> 0 over 1 s under in_quad, sampled at
\* 2.5 s: x = 10 + (0 - 10) * 0.25
C8_WitnessOfNumbers ==
    /\ sampled.op = "sample" /\ animType = "seq" /\ sampled.t = Num(5, 2)
    /\ animList = <<"a", "b", "c">> /\ Duration("a") = Int2Num(2)
    /\ holder["x"] = Num(15, 2)
    /\ holder["y"] = sampled.before["y"]

\* the composite that createAnimationSequence builds from animList
Composite == IF Len(animList) = 1 THEN "a" ELSE IF Len(animList) = 2 THEN "ab" ELSE "abc"

At(s, time) == [s EXCEPT !.now = time]

\* the interactive run of the sequence from child idx on, with the clock at
\* the child's start when it is first advanced: advance it to time t, or to
\* its end, which starts the next child
RECURSIVE ReplaySequence(_, _, _, _)
ReplaySequence(s, idx, elapsed, t) ==
    IF idx > Len(animList) THEN s
    ELSE
    LET n == animList[idx]
        animEndTime == RAdd(elapsed, Duration(n))
        s1 == _update(At(s, elapsed), n, 0, "w1")
    IN  IF RLess(t, animEndTime) THEN _update(At(s1, t), n, 0, "w1")
        ELSE ReplaySequence(_update(At(s1, animEndTime), n, 0, "w1"), idx + 1,
                            animEndTime, t)

\* the interactive run of the parallel: every child is advanced at time 0
\* and at time t
RECURSIVE ReplayParallel(_, _, _)
ReplayParallel(s, idx, t) ==
    IF idx > Len(animList) THEN s
    ELSE LET n == animList[idx]
             s1 == _update(At(s, Zero), n, 0, "w1")
         IN  ReplayParallel(_update(At(s1, t), n, 0, "w1"), idx + 1, t)

\* the properties an interactive replay up to time t leaves on a widget
\* that starts with the properties of the PropertyHolder
Replay(t) ==
    LET fresh == Engine([n \in Anims |-> NoSessions], [n \in Anims |-> <<>>], {},
                        [w \in Widgets |-> InitialHolder],
                        [n \in Comps |-> [w \in Widgets |-> {}]], Zero)
        s == Start(fresh, Composite, "w1")
    IN  IF animType = "seq" THEN ReplaySequence(s, 1, Zero, t).target["w1"]
        ELSE ReplayParallel(s, 1, t).target["w1"]

FirstSample == sampled.op = "sample" /\ sampled.before = InitialHolder /\ animList # <<>>

\* C10: the first sample of a list at time t leaves in every property the
\* value the interactive replay of the composite up to time t leaves in it.
C10_SamplerEqualsReplay ==
    FirstSample => \A key \in DOMAIN holder : holder[key] = Replay(sampled.t)[key]

\* the same on the properties whose values are numbers
C10_SamplerEqualsReplayOnNumbers ==
    FirstSample =>
        \A key \in DOMAIN holder :
            IsNum(InitialHolder[key]) => holder[key] = Replay(sampled.t)[key]

(***************************************************************************)
(* Building animation objects: add, and, createAnimationSequence.  The     *)
(* objects are trees over the three primitives.                            *)
(***************************************************************************)
MaxLeaves == 4        \* primitives in one built animation object

\* the primitive n as an operand
Leaf(n) == [op |-> "anim", a |-> n, kids |-> <<>>]

\* new Sequence(anim1, anim2) and new Parallel(anim1, anim2)
NewSequence(anim1_, anim2_) == [op |-> "seq", a |-> "a", kids |-> <<anim1_, anim2_>>]
NewParallel(anim1_, anim2_) == [op |-> "par", a |-> "a", kids |-> <<anim1_, anim2_>>]

\* add(other) and and(other)
add(this, other) == NewSequence(this, other)
and(this, other) == NewParallel(this, other)

RECURSIVE Leaves(_)
Leaves(t) == IF t.op = "anim" THEN 1 ELSE Leaves(t.kids[1]) + Leaves(t.kids[2])

\* variant of Parallel's duration getter that adds the durations
ParallelDurationAsSum(x, y) == RAdd(x, y)

\* get duration() of Sequence and of Parallel, on the children's durations
SequenceDuration(x, y) == RAdd(x, y)
ParallelDuration(x, y) == RMax(x, y)

\* anim.duration of a built animation object
RECURSIVE duration(_)
duration(t) ==
    IF t.op = "anim" THEN Duration(t.a)
    ELSE IF t.op = "seq"
    THEN SequenceDuration(duration(t.kids[1]), duration(t.kids[2]))
    ELSE ParallelDuration(duration(t.kids[1]), duration(t.kids[2]))

\* the loop of createAnimationSequence from element i on
RECURSIVE Combine(_, _, _, _)
Combine(combined, animations, i, sequential) ==
    IF i > Len(animations) THEN combined
    ELSE Combine(IF sequential THEN add(combined, Leaf(animations[i]))
                 ELSE and(combined, Leaf(animations[i])),
                 animations, i + 1, sequential)

\* AnimationHandler.createAnimationSequence; NoTree stands for null
createAnimationSequence(animations, sequential) ==
    IF Len(animations) = 0 THEN NoTree
    ELSE Combine(Leaf(animations[1]), animations, 2, sequential)

\* the operands of add and and: a primitive or a pair of primitives
Operands ==
    {Leaf(n) : n \in Prims}
    \cup {NewSequence(Leaf(n), Leaf(m)) : n, m \in Prims}
    \cup {NewParallel(Leaf(n), Leaf(m)) : n, m \in Prims}

\* the animation lists handed to createAnimationSequence
Lists == {<<>>} \cup UNION {[1..len -> Prims] : len \in 1..(MaxLeaves - 1)}

ComposeInit ==
    /\ options \in SamplerOptionChoices
    /\ kind = [n \in Comps |-> "seq"]
    /\ tree \in {Leaf(n) : n \in Prims}
    /\ built = NotBuilt
    /\ EngineInit
    /\ SamplerIdle
    /\ ParserIdle
    /\ ShapeIdle

CallAdd(other) ==
    /\ tree # NoTree
    /\ Leaves(tree) + Leaves(other) <= MaxLeaves
    /\ tree' = add(tree, other)
    /\ built' = [op |-> "add", list |-> <<>>, sequential |-> TRUE]
    /\ UNCHANGED <<kind, options, calls, engineVars, samplerVars, parserVars, shapeVars>>

CallAnd(other) ==
    /\ tree # NoTree
    /\ Leaves(tree) + Leaves(other) <= MaxLeaves
    /\ tree' = and(tree, other)
    /\ built' = [op |-> "and", list |-> <<>>, sequential |-> FALSE]
    /\ UNCHANGED <<kind, options, calls, engineVars, samplerVars, parserVars, shapeVars>>

CallCreateAnimationSequence(animations, sequential) ==
    /\ tree' = createAnimationSequence(animations, sequential)
    /\ built' = [op |-> "createAnimationSequence", list |-> animations,
                 sequential |-> sequential]
    /\ UNCHANGED <<kind, options, calls, engineVars, samplerVars, parserVars, shapeVars>>

ComposeNext ==
    \/ \E other \in Operands : CallAdd(other)
    \/ \E other \in Operands : CallAnd(other)
    \/ \E animations \in Lists, sequential \in BOOLEAN :
          CallCreateAnimationSequence(animations, sequential)

SpecCompose == ComposeInit /\ [][ComposeNext]_vars

\* the subtrees of a built animation object
RECURSIVE Nodes(_)
Nodes(t) == IF t.op = "anim" THEN {t} ELSE {t} \cup Nodes(t.kids[1]) \cup Nodes(t.kids[2])

IsSum(z, x, y) == z.n * x.d * y.d = (x.n * y.d + y.n * x.d) * z.d
IsMax(z, x, y) == z \in {x, y} /\ RLeq(x, z) /\ RLeq(y, z)

\* C11: in every built animation object the duration of a Sequence node is
\* the sum of its children's durations and that of a Parallel node their
\* maximum; the object createAnimationSequence builds from a list has the
\* sum of the elements' durations when sequential and their maximum otherwise.
C11_DurationAlgebra ==
    tree # NoTree =>
        /\ \A t \in Nodes(tree) :
              /\ t.op = "seq" => IsSum(duration(t), duration(t.kids[1]), duration(t.kids[2]))
              /\ t.op = "par" => IsMax(duration(t), duration(t.kids[1]), duration(t.kids[2]))
        /\ built.op = "createAnimationSequence" =>
              duration(tree) = IF built.sequential THEN SumOfDurations(built.list, 1)
                               ELSE MaxOfDurations(built.list, 1)

\* a Parallel as left operand and a Sequence as right operand of add:
\* max(2, 1/2) + (1 + 1/2)
C11_Witness ==
    /\ built.op = "add"
    /\ tree = NewSequence(NewParallel(Leaf("a"), Leaf("c")),
                          NewSequence(Leaf("b"), Leaf("c")))
    /\ Duration("a") = Int2Num(2)
    /\ duration(tree) = Num(7, 2)

(***************************************************************************)
(* PathParser.js: tokenizePath and parsePath.  A string is the sequence of *)
(* its characters; a missing value is Null.                                *)
(***************************************************************************)
CommandLetters ==
    {"M", "m", "Z", "z", "L", "l", "H", "h", "V", "v",
     "C", "c", "S", "s", "Q", "q", "T", "t", "A", "a"}
Separators == {" ", ","}
DigitValue ==
    "0" :> 0 @@ "1" :> 1 @@ "2" :> 2 @@ "3" :> 3 @@ "4" :> 4 @@ "5" :> 5
    @@ "6" :> 6 @@ "7" :> 7 @@ "8" :> 8 @@ "9" :> 9
Digits == DOMAIN DigitValue

\* /e$/i.test(current)
EndsWithE(current) == current # <<>> /\ current[Len(current)] \in {"e", "E"}

\* the loop of tokenizePath from character i on; current never holds white
\* space, so current.trim() is current
\* the token list once the pending token, if any, is pushed
Flushed(current, toks) == IF current # <<>> THEN Append(toks, current) ELSE toks

\* a minus sign starts a new number unless it follows an exponent mark
StartsNumber(char, current) == char = "-" /\ current # <<>> /\ ~EndsWithE(current)

\* the pending token after one more character
PendingAfter(char, current) ==
    IF char \in CommandLetters \cup Separators THEN <<>>
    ELSE IF StartsNumber(char, current) THEN <<char>>
    ELSE Append(current, char)

\* the token list after one more character
TokensAfter(char, current, toks) ==
    IF char \in CommandLetters THEN Append(Flushed(current, toks), <<char>>)
    ELSE IF char \in Separators \/ StartsNumber(char, current) THEN Flushed(current, toks)
    ELSE toks

\* the loop of tokenizePath from character i on; tokens are never more than
\* characters
RECURSIVE TokenizeFrom(_, _, _, _)
TokenizeFrom(str, i, current, toks) ==
    IF i > Len(str) \/ Len(toks) > Len(str) THEN Flushed(current, toks)
    ELSE TokenizeFrom(str, i + 1, PendingAfter(str[i], current),
                      TokensAfter(str[i], current, toks))

tokenizePath(str) == TokenizeFrom(str, 1, <<>>, <<>>)

\* the number of digits of tok from position i on
RECURSIVE DigitsRun(_, _)
DigitsRun(tok, i) ==
    IF i <= Len(tok) /\ tok[i] \in Digits THEN 1 + DigitsRun(tok, i + 1) ELSE 0

\* the value of the len digits of tok from position i on
RECURSIVE DigitsValue(_, _, _)
DigitsValue(tok, i, len) ==
    IF len = 0 THEN 0
    ELSE DigitsValue(tok, i, len - 1) * 10 + DigitValue[tok[i + len - 1]]

RECURSIVE Pow10(_)
Pow10(e) == IF e = 0 THEN 1 ELSE 10 * Pow10(e - 1)

CharAt(tok, i) == IF i <= Len(tok) THEN tok[i] ELSE ""

MaxExponent == 4      \* exponents of number literals the model tracks

\* a number whose value the model does not track (an irrational square
\* root, or a literal with an exponent beyond MaxExponent)
Float == [k |-> "float", n |-> 0, d |-> 1, v |-> <<>>]

IsNumber(x) == x.k \in {"num", "float"}

\* sign * mantissa * 10^exponent, untracked beyond MaxExponent
Literal(sign, mantissa, exponent) ==
    IF Abs(exponent) > MaxExponent THEN Float
    ELSE IF exponent >= 0
         THEN RMul(Int2Num(sign), RMul(mantissa, Int2Num(Pow10(exponent))))
         ELSE RMul(Int2Num(sign), RDiv(mantissa, Int2Num(Pow10(-exponent))))

\* the exponent of a literal whose mantissa ends before position q; the
\* digits of the exponent start at position r
ParseExponentDigits(tok, sign, mantissa, q, r) ==
    Literal(sign, mantissa,
            (IF CharAt(tok, q + 1) = "-" THEN -1 ELSE 1)
                * DigitsValue(tok, r, IF CharAt(tok, q) \in {"e", "E"}
                                      THEN DigitsRun(tok, r) ELSE 0))

ParseExponent(tok, sign, mantissa, q) ==
    ParseExponentDigits(tok, sign, mantissa, q,
                        IF CharAt(tok, q + 1) \in {"-", "+"} THEN q + 2 ELSE q + 1)

\* the literal with intLen digits from position p on and fracLen digits
\* after the point
ParseFraction(tok, sign, p, intLen, fracLen) ==
    IF intLen = 0 /\ fracLen = 0 THEN NaN
    ELSE ParseExponent(tok, sign,
             Num(DigitsValue(tok, p, intLen) * Pow10(fracLen)
                     + DigitsValue(tok, p + intLen + 1, fracLen),
                 Pow10(fracLen)),
             p + intLen + (IF CharAt(tok, p + intLen) = "." THEN 1 + fracLen ELSE 0))

ParseInteger(tok, sign, p, intLen) ==
    ParseFraction(tok, sign, p, intLen,
                  IF CharAt(tok, p + intLen) = "." THEN DigitsRun(tok, p + intLen + 1)
                  ELSE 0)

ParseUnsigned(tok, sign, p) == ParseInteger(tok, sign, p, DigitsRun(tok, p))

\* parseFloat: the longest prefix that is a decimal literal, else NaN
parseFloat(tok) ==
    ParseUnsigned(tok, IF CharAt(tok, 1) = "-" THEN -1 ELSE 1,
                  IF CharAt(tok, 1) \in {"-", "+"} THEN 2 ELSE 1)

\* +, - and * on numbers that may be NaN or untracked
NAdd(x, y) ==
    IF IsNum(x) /\ IsNum(y) THEN RAdd(x, y)
    ELSE IF NaN \in {x, y} THEN NaN ELSE Float
NSub(x, y) ==
    IF IsNum(x) /\ IsNum(y) THEN RSub(x, y)
    ELSE IF NaN \in {x, y} THEN NaN ELSE Float
NMul(x, y) ==
    IF IsNum(x) /\ IsNum(y) THEN RMul(x, y)
    ELSE IF NaN \in {x, y} THEN NaN ELSE Float

\* Math.sqrt of a number that is not negative
Sqrt(x) ==
    IF ~IsNum(x) THEN x
    ELSE IF \E r \in 0..x.n : r * r = x.n /\ \E q \in 1..x.d : q * q = x.d
    THEN Num(CHOOSE r \in 0..x.n : r * r = x.n, CHOOSE q \in 1..x.d : q * q = x.d)
    ELSE Float

\* point(x, y); real and imag are x and y
point(x, y) == [x |-> x, y |-> y]
NoPoint == [x |-> Null, y |-> Null]
Plus(p, x, y) == point(NAdd(p.x, x), NAdd(p.y, y))

\* the path elements
Move(to) ==
    [type |-> "Move", start |-> to, control1 |-> NoPoint, control2 |-> NoPoint,
     end |-> to]
Close(start, end) ==
    [type |-> "Close", start |-> start, control1 |-> NoPoint, control2 |-> NoPoint,
     end |-> end]
Line(start, end) ==
    [type |-> "Line", start |-> start, control1 |-> NoPoint, control2 |-> NoPoint,
     end |-> end]
CubicBezier(start, control1, control2, end) ==
    [type |-> "CubicBezier", start |-> start, control1 |-> control1,
     control2 |-> control2, end |-> end]

\* arcToBezier of the arc from start to end; radius, rotation and the flags
\* do not enter the approximation
arcToBezier(start, end) ==
    LET dx == NSub(end.x, start.x)
        dy == NSub(end.y, start.y)
        dist == Sqrt(NAdd(NMul(dx, dx), NMul(dy, dy)))
        offset == NMul(dist, Num(1, 2))
        control1 == point(NAdd(start.x, NMul(dx, Num(1, 4))),
                          NSub(NAdd(start.y, NMul(dy, Num(1, 4))), offset))
        control2 == point(NSub(end.x, NMul(dx, Num(1, 4))),
                          NSub(NSub(end.y, NMul(dy, Num(1, 4))), offset))
    IN  <<CubicBezier(start, control1, control2, end)>>

\* tokens[i] (1-based here); past the end it is undefined, which parseFloat
\* turns into NaN as it does the empty string
Tok(toks, i) == IF i <= Len(toks) THEN toks[i] ELSE <<>>
F(toks, i) == parseFloat(Tok(toks, i))

\* i < tokens.length && !isNaN(parseFloat(tokens[i]))
MoreNumbers(toks, i) == i <= Len(toks) /\ IsNumber(parseFloat(toks[i]))

\* the loops of parsePath over the coordinates of one command; st holds the
\* locals i, elements, currentPoint, startPoint and lastControl
\* the point (x, y), absolute or relative to cur
To(absolute, cur, x, y) == IF absolute THEN point(x, y) ELSE Plus(cur, x, y)

\* the coordinate v, absolute or relative to base
Along(absolute, base, v) == IF absolute THEN v ELSE NAdd(base, v)

\* one pass of a line loop: n tokens read, a Line to endPoint pushed
LineTo(st, n, endPoint) ==
    [st EXCEPT !.i = @ + n,
               !.elements = Append(@, Line(st.currentPoint, endPoint)),
               !.currentPoint = endPoint]

\* one pass of a cubic loop
CurveTo(st, n, control1, control2, endPoint) ==
    [st EXCEPT !.i = @ + n,
               !.elements = Append(@, CubicBezier(st.currentPoint, control1, control2,
                                                  endPoint)),
               !.lastControl = control2,
               !.currentPoint = endPoint]

\* from + 2/3 * (control - from)
TwoThirds(from, control) ==
    point(NAdd(from.x, NMul(Num(2, 3), NSub(control.x, from.x))),
          NAdd(from.y, NMul(Num(2, 3), NSub(control.y, from.y))))

\* one pass of a quadratic loop
QuadTo(st, n, control, endPoint) ==
    [st EXCEPT !.i = @ + n,
               !.elements = Append(@, CubicBezier(st.currentPoint,
                                TwoThirds(st.currentPoint, control),
                                TwoThirds(endPoint, control), endPoint)),
               !.lastControl = control,
               !.currentPoint = endPoint]

\* one pass of the arc loop
ArcTo(st, endPoint) ==
    [st EXCEPT !.i = @ + 7,
               !.elements = @ \o arcToBezier(st.currentPoint, endPoint),
               !.currentPoint = endPoint]

\* the reflection of lastControl about the current point, or the current
\* point when there is none
Reflection(st) ==
    IF st.lastControl # NoPoint
    THEN point(NSub(NMul(Int2Num(2), st.currentPoint.x), st.lastControl.x),
               NSub(NMul(Int2Num(2), st.currentPoint.y), st.lastControl.y))
    ELSE st.currentPoint

\* variant of the line loop that reads every pair as relative
RECURSIVE LineLoopRelative(_, _, _)
LineLoopRelative(toks, st, absolute) ==
    IF ~MoreNumbers(toks, st.i) THEN st
    ELSE LineLoopRelative(toks,
             LineTo(st, 2, To(FALSE, st.currentPoint, F(toks, st.i), F(toks, st.i + 1))),
             absolute)

RECURSIVE LineLoop(_, _, _)
LineLoop(toks, st, absolute) ==
    IF ~MoreNumbers(toks, st.i) THEN st
    ELSE LineLoop(toks,
             LineTo(st, 2, To(absolute, st.currentPoint, F(toks, st.i),
                              F(toks, st.i + 1))),
             absolute)

RECURSIVE HorizontalLoop(_, _, _)
HorizontalLoop(toks, st, absolute) ==
    IF ~MoreNumbers(toks, st.i) THEN st
    ELSE HorizontalLoop(toks,
             LineTo(st, 1, point(Along(absolute, st.currentPoint.x, F(toks, st.i)),
                                 st.currentPoint.y)),
             absolute)

RECURSIVE VerticalLoop(_, _, _)
VerticalLoop(toks, st, absolute) ==
    IF ~MoreNumbers(toks, st.i) THEN st
    ELSE VerticalLoop(toks,
             LineTo(st, 1, point(st.currentPoint.x,
                                 Along(absolute, st.currentPoint.y, F(toks, st.i)))),
             absolute)

RECURSIVE CubicLoop(_, _, _)
CubicLoop(toks, st, absolute) ==
    IF ~MoreNumbers(toks, st.i) THEN st
    ELSE CubicLoop(toks,
             CurveTo(st, 6,
                 To(absolute, st.currentPoint, F(toks, st.i), F(toks, st.i + 1)),
                 To(absolute, st.currentPoint, F(toks, st.i + 2), F(toks, st.i + 3)),
                 To(absolute, st.currentPoint, F(toks, st.i + 4), F(toks, st.i + 5))),
             absolute)

RECURSIVE SmoothCubicLoop(_, _, _)
SmoothCubicLoop(toks, st, absolute) ==
    IF ~MoreNumbers(toks, st.i) THEN st
    ELSE SmoothCubicLoop(toks,
             CurveTo(st, 4, Reflection(st),
                 To(absolute, st.currentPoint, F(toks, st.i), F(toks, st.i + 1)),
                 To(absolute, st.currentPoint, F(toks, st.i + 2), F(toks, st.i + 3))),
             absolute)

RECURSIVE QuadraticLoop(_, _, _)
QuadraticLoop(toks, st, absolute) ==
    IF ~MoreNumbers(toks, st.i) THEN st
    ELSE QuadraticLoop(toks,
             QuadTo(st, 4,
                 To(absolute, st.currentPoint, F(toks, st.i), F(toks, st.i + 1)),
                 To(absolute, st.currentPoint, F(toks, st.i + 2), F(toks, st.i + 3))),
             absolute)

RECURSIVE SmoothQuadraticLoop(_, _, _)
SmoothQuadraticLoop(toks, st, absolute) ==
    IF ~MoreNumbers(toks, st.i) THEN st
    ELSE SmoothQuadraticLoop(toks,
             QuadTo(st, 2, Reflection(st),
                 To(absolute, st.currentPoint, F(toks, st.i), F(toks, st.i + 1))),
             absolute)

RECURSIVE ArcLoop(_, _, _)
ArcLoop(toks, st, absolute) ==
    IF ~MoreNumbers(toks, st.i) THEN st
    ELSE ArcLoop(toks,
             ArcTo(st, To(absolute, st.currentPoint, F(toks, st.i + 5),
                          F(toks, st.i + 6))),
             absolute)

\* the move of the M / m case
Moved(st, to) ==
    [st EXCEPT !.i = @ + 2,
               !.currentPoint = to,
               !.startPoint = to,
               !.elements = Append(@, Move(to))]

\* the M / m case: the move, then the following pairs as lines
MoveTo(toks, st, absolute) ==
    LineLoop(toks,
        Moved(st, To(absolute, st.currentPoint, F(toks, st.i), F(toks, st.i + 1))),
        absolute)

\* the Z / z case
ClosePath(st) ==
    [st EXCEPT !.elements = Append(@, Close(st.currentPoint, st.startPoint)),
               !.currentPoint = st.startPoint]

\* the switch on one command token, i already past it
Command(toks, st, command) ==
    CASE command \in {<<"M">>, <<"m">>} -> MoveTo(toks, st, command = <<"M">>)
      [] command \in {<<"Z">>, <<"z">>} -> ClosePath(st)
      [] command \in {<<"L">>, <<"l">>} -> LineLoop(toks, st, command = <<"L">>)
      [] command \in {<<"H">>, <<"h">>} -> HorizontalLoop(toks, st, command = <<"H">>)
      [] command \in {<<"V">>, <<"v">>} -> VerticalLoop(toks, st, command = <<"V">>)
      [] command \in {<<"C">>, <<"c">>} -> CubicLoop(toks, st, command = <<"C">>)
      [] command \in {<<"S">>, <<"s">>} -> SmoothCubicLoop(toks, st, command = <<"S">>)
      [] command \in {<<"Q">>, <<"q">>} -> QuadraticLoop(toks, st, command = <<"Q">>)
      [] command \in {<<"T">>, <<"t">>} ->
            SmoothQuadraticLoop(toks, st, command = <<"T">>)
      [] command \in {<<"A">>, <<"a">>} -> ArcLoop(toks, st, command = <<"A">>)
      [] OTHER -> st

\* while (i < tokens.length)
RECURSIVE ParseLoop(_, _)
ParseLoop(toks, st) ==
    IF st.i > Len(toks) THEN st
    ELSE ParseLoop(toks, Command(toks, [st EXCEPT !.i = @ + 1], toks[st.i]))

\* a string value: its characters, or null
String(chars) == [null |-> FALSE, chars |-> chars]
NullString == [null |-> TRUE, chars |-> <<>>]

\* parsePath: the elements, or the TypeError that pathString.length raises
\* in tokenizePath when pathString is null
parsePath(str) ==
    IF str.null THEN [raised |-> TRUE, elements |-> <<>>]
    ELSE [raised |-> FALSE,
          elements |-> ParseLoop(tokenizePath(str.chars),
                           [i |-> 1, elements |-> <<>>,
                            currentPoint |-> point(Zero, Zero),
                            startPoint |-> point(Zero, Zero),
                            lastControl |-> NoPoint]).elements]

\* the loop of processPathData over the parsed elements of one path
RECURSIVE CollectPaths(_, _, _, _, _)
CollectPaths(parsedPath, k, moveFound, tmp, acc) ==
    IF k > Len(parsedPath) THEN acc
    ELSE
    LET e == parsedPath[k]
        push == e.type = "Close" \/ (e.type = "Move" /\ moveFound)
        acc1 == IF push THEN Append(acc, tmp) ELSE acc
        found1 == IF push THEN FALSE ELSE moveFound
        tmp1 == IF e.type = "Move" THEN <<>> ELSE tmp
        found2 == IF e.type = "Move" THEN TRUE ELSE found1
        tmp2 == IF e.type # "Move" /\ found2 THEN Append(tmp1, e) ELSE tmp1
    IN  CollectPaths(parsedPath, k + 1, found2, tmp2, acc1)

\* DrawingManager.processPathData on a document with one path element: the
\* path list, the sub-path list of the shape, or the exception of parsePath
Collected(r) ==
    [raised |-> r.raised, path |-> r.elements,
     paths |-> CollectPaths(r.elements, 1, FALSE, <<>>, <<>>)]

processPathData(str) == Collected(parsePath(str))

(***************************************************************************)
(* The geometry stage on the d value of one path element.                  *)
(***************************************************************************)
MaxCommands == 3      \* commands in a well-formed d string
MaxWords == 4         \* pieces in an arbitrary d string

\* number literals, as written and as meant
LiteralChars ==
    "1.5" :> <<"1", ".", "5">> @@ "-2" :> <<"-", "2">> @@ "30" :> <<"3", "0">>
LiteralValue == "1.5" :> Num(3, 2) @@ "-2" :> Int2Num(-2) @@ "30" :> Int2Num(30)
Literals == DOMAIN LiteralChars
NextLiteral == "1.5" :> "-2" @@ "-2" :> "30" @@ "30" :> "1.5"

\* the coordinates of a command written from literal c: the pairs (c, c'),
\* (c', c''), (c'', c) with c' the literal after c
CoordinatesOf(letter, c) ==
    LET c1 == NextLiteral[c]
        c2 == NextLiteral[c1]
    IN  IF letter = "Z" THEN <<>>
        ELSE IF letter = "C" THEN <<c, c1, c1, c2, c2, c>>
        ELSE IF letter \in {"S", "s", "Q"} THEN <<c, c1, c1, c2>>
        ELSE <<c, c1>>

\* the commands of a well-formed d string; the letter "" continues the
\* coordinate list of the M or L before it with one more pair
WrittenCommands ==
    {[letter |-> "Z", c |-> "1.5"]}
    \cup {[letter |-> l, c |-> c] : l \in {"M", "L", "C", ""}, c \in Literals}

WellFormedLists ==
    {cmds \in UNION {[1..len -> WrittenCommands] : len \in 1..MaxCommands} :
        \A k \in 1..Len(cmds) :
            cmds[k].letter = "" => (k > 1 /\ cmds[k - 1].letter \in {"M", "L", ""})}

\* the ways of separating coordinates: a blank or a comma before each, or
\* ("") only a blank where the grammar needs one, i.e. not after the
\* command letter and not before a minus sign
Styles == {" ", ",", ""}

RECURSIVE WriteCoordinates(_, _, _, _)
WriteCoordinates(coords, k, style, afterLetter) ==
    IF k > Len(coords) THEN <<>>
    ELSE (IF style # "" THEN <<style>>
          ELSE IF afterLetter \/ LiteralChars[coords[k]][1] = "-" THEN <<>>
          ELSE <<" ">>)
         \o LiteralChars[coords[k]]
         \o WriteCoordinates(coords, k + 1, style, FALSE)

\* the d string of a command list
RECURSIVE Write(_, _, _)
Write(cmds, k, style) ==
    IF k > Len(cmds) THEN <<>>
    ELSE (IF cmds[k].letter = "" THEN <<>> ELSE <<cmds[k].letter>>)
         \o WriteCoordinates(CoordinatesOf(cmds[k].letter, cmds[k].c), 1, style,
                             cmds[k].letter # "")
         \o Write(cmds, k + 1, style)

\* the pieces arbitrary d strings are made of
Words ==
    {<<"M">>, <<"L">>, <<"Z">>, <<"c">>, <<"x">>, <<"1">>, <<"-", "2">>, <<".">>,
     <<"1", "e">>, <<" ">>}

RECURSIVE Concat(_, _)
Concat(ws, k) == IF k > Len(ws) THEN <<>> ELSE ws[k] \o Concat(ws, k + 1)

ArbitraryStrings ==
    {Concat(ws, 1) : ws \in UNION {[1..len -> Words] : len \in 0..MaxWords}}

ParserInit ==
    /\ \/ \E cmds \in WellFormedLists, style \in Styles :
            /\ pathString = String(Write(cmds, 1, style))
            /\ written = cmds
       \/ /\ pathString \in {String(chars) : chars \in ArbitraryStrings} \cup {NullString}
          /\ written = <<>>
    /\ elements = <<>>
    /\ paths = <<>>
    /\ parsed = [op |-> "none", raised |-> FALSE]
    /\ strokes = NotStroked
    /\ options \in OptionChoices
    /\ kind = [n \in Comps |-> "seq"]
    /\ EngineInit
    /\ SamplerIdle
    /\ ComposeIdle
    /\ ShapeIdle

\* parsePath(d)
CallParsePath ==
    \E r \in {parsePath(pathString)} :
        /\ elements' = r.elements
        /\ parsed' = [op |-> "parsePath", raised |-> r.raised]
        /\ UNCHANGED <<kind, options, calls, engineVars, samplerVars, composeVars,
                       shapeVars, pathString, paths, written, strokes>>

\* DrawingManager.processPathData on the document that holds the path
CallProcessPathData ==
    \E r \in {processPathData(pathString)} :
        /\ elements' = r.path
        /\ paths' = r.paths
        /\ parsed' = [op |-> "processPathData", raised |-> r.raised]
        /\ UNCHANGED <<kind, options, calls, engineVars, samplerVars, composeVars,
                       shapeVars, pathString, written, strokes>>

ParserNext == CallParsePath \/ CallProcessPathData

SpecParser == ParserInit /\ [][ParserNext]_vars

\* C12: parsePath, called alone or from processPathData, returns an element
\* list and raises nothing, for every string and for the value of a missing
\* d attribute.
C12_ParserNeverRaises == parsed.op # "none" => ~parsed.raised

\* the same for the d values that are strings
C12_ParserNeverRaisesOnStrings ==
    (parsed.op # "none" /\ ~pathString.null) => ~parsed.raised

\* a truncated command followed by an unknown letter and a lone dot
C12_WitnessOnStrings ==
    /\ parsed.op = "parsePath" /\ ~parsed.raised
    /\ pathString = String(<<"L", "1", "x", ".">>)
    /\ Len(elements) = 1

\* the point the literals a and b denote
Meant(a, b) == point(LiteralValue[a], LiteralValue[b])

\* the index of the latest M among the first k written commands, 0 if none
RECURSIVE LatestMove(_)
LatestMove(k) ==
    IF k = 0 THEN 0 ELSE IF written[k].letter = "M" THEN k ELSE LatestMove(k - 1)

\* what written command k is to parse to: its element type and the points
\* its literals denote, in input order
ParsedAsWritten(k) ==
    LET w == written[k]
        e == elements[k]
        c == CoordinatesOf(w.letter, w.c)
        m == LatestMove(k)
    IN  CASE w.letter = "M" -> e.type = "Move" /\ e.end = Meant(c[1], c[2])
          [] w.letter \in {"L", ""} -> e.type = "Line" /\ e.end = Meant(c[1], c[2])
          [] w.letter = "C" ->
                /\ e.type = "CubicBezier"
                /\ e.control1 = Meant(c[1], c[2])
                /\ e.control2 = Meant(c[3], c[4])
                /\ e.end = Meant(c[5], c[6])
          [] w.letter = "Z" ->
                /\ e.type = "Close"
                /\ m > 0 => e.end = Meant(written[m].c, NextLiteral[written[m].c])

Written(letters) ==
    Cardinality({k \in 1..Len(pathString.chars) : pathString.chars[k] \in letters})
Parsed(type) == Cardinality({k \in 1..Len(elements) : elements[k].type = type})

\* C20: whatever the coordinate lists hold, every command letter of the
\* input is interpreted as a command and none is consumed as a coordinate:
\* each M or m gives one Move and each Z or z one Close.
C20_LettersStayCommands ==
    (parsed.op = "parsePath" /\ ~pathString.null) =>
        /\ Parsed("Move") = Written({"M", "m"})
        /\ Parsed("Close") = Written({"Z", "z"})

\* C14: processPathData records a sub-path in the shape's sub-path list
\* only when an explicit Close terminates it, so the list holds no more
\* sub-paths than the path has Close elements.
C14_OnlyClosedSubPaths ==
    (parsed.op = "processPathData" /\ ~parsed.raised) => Len(paths) <= Parsed("Close")


(***************************************************************************)
(* ShapeAnimator: the directional reveal of one shape.                     *)
(*                                                                         *)
(* pathData is what _extractPathData returns: a list of paths, each a list *)
(* of elements, a line being two points and a bezier four; a point is a    *)
(* pair <<x, y>>.  A widget property `<shapeId>_mesh_line<i>_start_x` is    *)
(* the key <<"line", i, "start_x">>.                                        *)
(***************************************************************************)
MaxElements == 2

Directions == {"left", "right", "top", "bottom", "center_x", "center_y"}

Pt(x, y) == <<Int2Num(x), Int2Num(y)>>

ElementPool ==
    { <<Pt(0, 0), Pt(10, 0)>>,
      <<Pt(10, 0), Pt(10, 10)>>,
      <<Pt(10, 0), Pt(20, 5)>>,
      <<Pt(30, 5), Pt(40, 0)>>,
      <<Pt(0, 0), Pt(5, 20), Pt(20, 30), Pt(40, 10)>> }

RECURSIVE Flatten(_)
Flatten(lists) == IF lists = <<>> THEN <<>> ELSE Head(lists) \o Flatten(Tail(lists))

isHorizontal(direction) == direction \in {"left", "right", "center_x"}
isVertical(direction) == direction \in {"top", "bottom", "center_y"}

\* the coordinates _calculateBasePoint collects, in the order of the paths
coordinates(pd, direction) ==
    LET points == Flatten(Flatten(pd))
    IN  [i \in 1..Len(points) |->
            IF isHorizontal(direction) THEN points[i][1] ELSE points[i][2]]

\* Math.max and Math.min of a non-empty list of numbers
RECURSIVE MathMax(_)
MathMax(list) ==
    IF Len(list) = 1 THEN list[1] ELSE RMax(list[1], MathMax(Tail(list)))

RECURSIVE MathMin(_)
MathMin(list) ==
    IF Len(list) = 1 THEN list[1] ELSE RMin(list[1], MathMin(Tail(list)))

\* list.sort((a, b) => a - b)
RECURSIVE InsertSorted(_, _)
InsertSorted(x, sorted) ==
    IF sorted = <<>> THEN <<x>>
    ELSE IF RLess(x, Head(sorted)) THEN <<x>> \o sorted
    ELSE <<Head(sorted)>> \o InsertSorted(x, Tail(sorted))

RECURSIVE sort(_)
sort(list) ==
    IF list = <<>> THEN <<>> ELSE InsertSorted(list[Len(list)], sort(SubSeq(list, 1, Len(list) - 1)))

\* sortedList[i] with JavaScript's 0-based index
ItemAt(list, i) == IF i + 1 \in 1..Len(list) THEN list[i + 1] ELSE Undefined

\* a variant of findCenter that takes the lower middle element of an even count
findCenterLower(sortedList) ==
    ItemAt(sortedList, (Len(sortedList) - 1) \div 2)

findCenter(sortedList) ==
    LET length == Len(sortedList)
        upper == ItemAt(sortedList, length \div 2)
        lower == ItemAt(sortedList, length \div 2 - 1)
    IN  IF length % 2 # 0 THEN upper
        ELSE IF IsNum(upper) /\ IsNum(lower)
             THEN RDiv(RAdd(upper, lower), Int2Num(2))
             ELSE NaN

_calculateBasePoint(pd, direction) ==
    IF direction = "none" THEN Null
    ELSE IF direction \in {"top", "right"} THEN MathMax(coordinates(pd, direction))
    ELSE IF direction \in {"left", "bottom"} THEN MathMin(coordinates(pd, direction))
    ELSE IF direction \in {"center_x", "center_y"}
         THEN findCenter(sort(coordinates(pd, direction)))
    ELSE Null

\* the widget with the properties of f written over it
WithProps(w, f) ==
    [key \in DOMAIN w \cup DOMAIN f |-> IF key \in DOMAIN f THEN f[key] ELSE w[key]]

\* the point names of an element, in the order of its points
PointNames(element) ==
    IF Len(element) = 2 THEN <<"start", "end">>
    ELSE <<"start", "control1", "control2", "end">>

Shape(element) == IF Len(element) = 2 THEN "line" ELSE "bezier"

\* the initial property values _setupLineAnimation and _setBezierProperties write
InitialProps(element, index, bp, direction) ==
    [key \in { <<Shape(element), index, PointNames(element)[i], axis>> :
                   i \in 1..Len(element), axis \in {"x", "y"} } |->
        LET i == CHOOSE i \in 1..Len(element) : PointNames(element)[i] = key[3]
        IN  IF key[4] = "x"
            THEN (IF isHorizontal(direction) THEN bp ELSE element[i][1])
            ELSE (IF isVertical(direction) THEN bp ELSE element[i][2])]

\* a variant of AnimProps that animates the x properties whatever the direction
AnimPropsOfX(element, index, direction) ==
    [key \in { <<Shape(element), index, PointNames(element)[i], "x">> :
                   i \in 1..Len(element) } |->
        LET i == CHOOSE i \in 1..Len(element) : PointNames(element)[i] = key[3]
        IN  element[i][1]]

\* the animProps of _setupLineAnimation and _setupBezierAnimation
AnimProps(element, index, direction) ==
    LET axis == IF isHorizontal(direction) THEN "x" ELSE "y"
    IN  [key \in { <<Shape(element), index, PointNames(element)[i], axis>> :
                       i \in 1..Len(element) } |->
            LET i == CHOOSE i \in 1..Len(element) : PointNames(element)[i] = key[3]
            IN  IF axis = "x" THEN element[i][1] ELSE element[i][2]]

\* the loop of setupAnimation over the elements of all paths: the widget it
\* leaves and the list of animated properties it returns
RECURSIVE SetupLoop(_, _, _, _, _, _, _)
SetupLoop(elems, i, lineCount, bezierCount, bp, direction, acc) ==
    IF i > Len(elems) THEN acc
    ELSE LET element == elems[i]
             index == IF Len(element) = 2 THEN lineCount ELSE bezierCount
             next == [widget |-> WithProps(acc.widget,
                                           InitialProps(element, index, bp, direction)),
                      animList |-> Append(acc.animList,
                                          AnimProps(element, index, direction))]
         IN  IF Len(element) = 2
             THEN SetupLoop(elems, i + 1, lineCount + 1, bezierCount, bp, direction, next)
             ELSE SetupLoop(elems, i + 1, lineCount, bezierCount + 1, bp, direction, next)

setupAnimation(widget, pd, ctx) ==
    IF pd = <<>> THEN [widget |-> widget, animList |-> <<>>, basePoint |-> Null]
    ELSE LET bp == _calculateBasePoint(pd, ctx.direction)
             done == SetupLoop(Flatten(pd), 1, 0, 0, bp, ctx.direction,
                               [widget |-> widget, animList |-> <<>>])
         IN  [widget |-> done.widget, animList |-> done.animList, basePoint |-> bp]

\* the members of the object literal AnimationTransition that the model
\* carries: the public easings and the helper _out_bounce_internal(t, d)
OwnMembers == TransitionNames \cup {"_out_bounce_internal"}

\* the members AnimationTransition inherits from Object.prototype that the
\* model carries
InheritedMembers == {"hasOwnProperty"}

\* the names a shape's configuration gives as its easing
EasingNames == OwnMembers \cup InheritedMembers \cup {"wobble"}

\* AnimationTransition[transitionName] || AnimationTransition.linear: the
\* member the constructor keeps as this._transition
Lookup(transitionName) ==
    IF transitionName \in OwnMembers \cup InheritedMembers THEN transitionName ELSE "linear"

\* _out_bounce_internal(t, d); p = t / d is NaN when d is undefined, every
\* comparison with it is false and the last branch returns NaN
_out_bounce_internal(t, d) ==
    IF ~(IsNum(t) /\ IsNum(d)) THEN NaN
    ELSE LET p == RDiv(t, d)
             sq(q) == RMul(Num(121, 16), RMul(q, q))
         IN  IF RLess(p, Num(4, 11)) THEN sq(p)
             ELSE IF RLess(p, Num(8, 11)) THEN RAdd(sq(RSub(p, Num(6, 11))), Num(3, 4))
             ELSE IF RLess(p, Num(10, 11)) THEN RAdd(sq(RSub(p, Num(9, 11))), Num(15, 16))
             ELSE RAdd(sq(RSub(p, Num(21, 22))), Num(63, 64))

\* this._transition(progress), as the number a * (1 - t) + b * t takes it for:
\* hasOwnProperty(progress) answers false, which counts as 0
Ease(transitionName, progress) ==
    CASE Lookup(transitionName) = "in_quad" -> in_quad(progress)
      [] Lookup(transitionName) = "out_quad" -> out_quad(progress)
      [] Lookup(transitionName) = "_out_bounce_internal" ->
            _out_bounce_internal(progress, Undefined)
      [] Lookup(transitionName) = "hasOwnProperty" -> Zero
      [] OTHER -> linear(progress)

\* _initialize of every primitive of the shape: properties[key] = [start, end]
Snapshot(widget, list) ==
    [i \in 1..Len(list) |->
        [key \in DOMAIN list[i] |->
            [startVal |-> IF key \in DOMAIN widget THEN widget[key] ELSE Undefined,
             endVal |-> list[i][key].endVal]]]

\* the property writes of _update of every primitive of the shape at a progress
RECURSIVE UpdateLoop(_, _, _, _)
UpdateLoop(widget, list, i, t) ==
    IF i > Len(list) THEN widget
    ELSE UpdateLoop(
            WithProps(widget,
                      [key \in DOMAIN list[i] |->
                          _calculate(list[i][key].startVal, list[i][key].endVal, t)]),
            list, i + 1, t)

\* the lists of up to MaxElements elements, as one path or split in two paths
ElementLists == UNION { [1..n -> ElementPool] : n \in 1..MaxElements }

PathDatas ==
    { <<l>> : l \in ElementLists }
        \cup { <<SubSeq(l, 1, 1), SubSeq(l, 2, Len(l))>> : l \in { m \in ElementLists : Len(m) > 1 } }

\* the sorted lists findCenter is called with directly
SortedLists ==
    { <<Int2Num(10)>>, <<Int2Num(10), Int2Num(20), Int2Num(30)>>,
      <<Int2Num(10), Int2Num(20), Int2Num(30), Int2Num(40)>> }

Progresses == {Zero, Num(1, 2), One}

ShapeInit ==
    /\ options \in OptionChoices
    /\ kind = [n \in Comps |-> "seq"]
    /\ pathData \in PathDatas
    /\ context \in [direction : Directions \cup {"none"}, transition : EasingNames]
    /\ basePoint = Null
    /\ mesh = NoProps
    /\ shapeAnims = <<>>
    /\ shaped = NotShaped
    /\ PlanIdle
    /\ EngineInit
    /\ SamplerIdle
    /\ ComposeIdle
    /\ ParserIdle

otherThanShape == <<kind, options, calls, engineVars, samplerVars, composeVars, parserVars,
                    planVars>>

\* ShapeAnimator.setupAnimation(caller, context)
CallSetupAnimation ==
    LET plan == setupAnimation(mesh, pathData, context)
    IN  /\ mesh' = plan.widget
        /\ basePoint' = plan.basePoint
        /\ shapeAnims' = [i \in 1..Len(plan.animList) |->
                            [key \in DOMAIN plan.animList[i] |->
                                [startVal |-> Undefined, endVal |-> plan.animList[i][key]]]]
        /\ shaped' = [NotShaped EXCEPT !.op = "setupAnimation"]
        /\ UNCHANGED <<pathData, context, otherThanShape>>

\* the planned primitives have taken their snapshot
Started ==
    /\ shapeAnims # <<>>
    /\ \A i \in 1..Len(shapeAnims) : \A key \in DOMAIN shapeAnims[i] :
            shapeAnims[i][key].startVal # Undefined

\* start of the primitives of a fresh plan, as prepareAndStartAnimation does:
\* each snapshots the properties it animates
StartReveal ==
    /\ shapeAnims # <<>>
    /\ ~Started
    /\ shapeAnims' = Snapshot(mesh, shapeAnims)
    /\ shaped' = [NotShaped EXCEPT !.op = "start"]
    /\ UNCHANGED <<pathData, context, basePoint, mesh, otherThanShape>>

\* _update of the planned primitives at a progress
UpdateReveal(progress) ==
    /\ Started
    /\ mesh' = UpdateLoop(mesh, shapeAnims, 1, Ease(context.transition, progress))
    /\ shaped' = [NotShaped EXCEPT !.op = "_update", !.progress = progress,
                                   !.result = Ease(context.transition, progress)]
    /\ UNCHANGED <<pathData, context, basePoint, shapeAnims, otherThanShape>>

\* findCenter(sortedList)
CallFindCenter(sortedList) ==
    /\ shaped' = [NotShaped EXCEPT !.op = "findCenter", !.list = sortedList,
                                   !.result = findCenter(sortedList)]
    /\ UNCHANGED <<pathData, context, basePoint, mesh, shapeAnims, otherThanShape>>

ShapeNext ==
    \/ CallSetupAnimation
    \/ StartReveal
    \/ \E progress \in Progresses : UpdateReveal(progress)
    \/ \E sortedList \in SortedLists : CallFindCenter(sortedList)

SpecShape == ShapeInit /\ [][ShapeNext]_vars



\* the points of the shape, in the order of its paths and elements
AllPoints == Flatten(Flatten(pathData))

\* the growth axis of a direction
GrowthAxis(direction) == IF direction \in {"left", "right", "center_x"} THEN "x" ELSE "y"

\* the growth-axis coordinates of the shape
GrowthCoordinates ==
    [i \in 1..Len(AllPoints) |->
        IF GrowthAxis(context.direction) = "x" THEN AllPoints[i][1] ELSE AllPoints[i][2]]

\* the k-th smallest of a list of numbers, counted from 1
Kth(list, k) ==
    CHOOSE x \in { list[i] : i \in 1..Len(list) } :
        /\ Cardinality({ i \in 1..Len(list) : RLess(list[i], x) }) < k
        /\ k <= Cardinality({ i \in 1..Len(list) : RLeq(list[i], x) })

\* the median: the middle element of an odd count, the average of the two
\* middle elements of an even count
Median(list) ==
    IF Len(list) % 2 = 1 THEN Kth(list, (Len(list) + 1) \div 2)
    ELSE RDiv(RAdd(Kth(list, Len(list) \div 2), Kth(list, Len(list) \div 2 + 1)), Int2Num(2))

IsMaximum(x, list) ==
    /\ \E i \in 1..Len(list) : list[i] = x
    /\ \A i \in 1..Len(list) : RLeq(list[i], x)

IsMinimum(x, list) ==
    /\ \E i \in 1..Len(list) : list[i] = x
    /\ \A i \in 1..Len(list) : RLeq(x, list[i])

\* C15: once a shape is planned with one of the six directions, basePoint is
\* the maximum of its growth-axis coordinates (x for left, right and center_x,
\* y for top, bottom and center_y) for top and right, their minimum for left
\* and bottom, and their median for center_x and center_y; findCenter of a
\* sorted list is its median, the middle element of an odd count and the
\* average of the two middle elements of an even count.
C15_BasePoint ==
    /\ (shapeAnims # <<>> /\ context.direction \in {"top", "right"})
            => IsMaximum(basePoint, GrowthCoordinates)
    /\ (shapeAnims # <<>> /\ context.direction \in {"left", "bottom"})
            => IsMinimum(basePoint, GrowthCoordinates)
    /\ (shapeAnims # <<>> /\ context.direction \in {"center_x", "center_y"})
            => basePoint = Median(GrowthCoordinates)
    /\ shaped.op = "findCenter" => shaped.result = Median(shaped.list)

\* a shape with the x coordinates 10, 20, 30, 40 planned from center_x has
\* the base point 25, and findCenter has answered 20 for [10, 20, 30]
C15_Witness ==
    /\ shapeAnims # <<>>
    /\ context.direction = "center_x"
    /\ GrowthCoordinates = <<Int2Num(10), Int2Num(20), Int2Num(30), Int2Num(40)>>
    /\ basePoint = Int2Num(25)
    /\ shaped.op = "findCenter"
    /\ shaped.list = <<Int2Num(10), Int2Num(20), Int2Num(30)>>
    /\ shaped.result = Int2Num(20)


\* the properties the plan of the shape writes: one per element, point and axis
MeshKeys ==
    { key \in DOMAIN mesh : TRUE }

\* the element a property belongs to: the index-th line or bezier of the shape
ElementOf(key) ==
    SelectSeq(Flatten(pathData), LAMBDA element : Shape(element) = key[1])[key[2] + 1]

\* the true value of a property: the coordinate of its point in the path data
TrueValue(key) ==
    LET element == ElementOf(key)
        i == CHOOSE i \in 1..Len(element) : PointNames(element)[i] = key[3]
    IN  IF key[4] = "x" THEN element[i][1] ELSE element[i][2]

\* every point of every element has its two properties on the target
EveryElementPlanned ==
    /\ Len(shapeAnims) = Len(Flatten(pathData))
    /\ Cardinality(MeshKeys) = 2 * Len(AllPoints)

\* C16: for a shape planned with one of the six directions, immediately after
\* planning every growth-axis property equals basePoint and every
\* orthogonal-axis property its true value; every element has one primitive,
\* which animates growth-axis properties only; the orthogonal properties keep
\* their true values at every progress, and at progress 1 every property has
\* its true value.
C16_DirectionalReveal ==
    (shapeAnims # <<>> /\ context.direction \in Directions) =>
        /\ EveryElementPlanned
        /\ shaped.op = "setupAnimation" =>
                \A key \in MeshKeys :
                    mesh[key] = IF key[4] = GrowthAxis(context.direction)
                                THEN basePoint ELSE TrueValue(key)
        /\ \A i \in 1..Len(shapeAnims) :
                /\ DOMAIN shapeAnims[i] # {}
                /\ \A key \in DOMAIN shapeAnims[i] : key[4] = GrowthAxis(context.direction)
        /\ \A key \in MeshKeys :
                key[4] # GrowthAxis(context.direction) => mesh[key] = TrueValue(key)
        /\ (shaped.op = "_update" /\ shaped.progress = One) =>
                \A key \in MeshKeys : mesh[key] = TrueValue(key)

\* the lines (0,0)-(10,0) and (10,0)-(10,10) revealed from the left have
\* reached progress 1: every x has left the base point 0 for its true value
C16_Witness ==
    /\ pathData = << << <<Pt(0, 0), Pt(10, 0)>>, <<Pt(10, 0), Pt(10, 10)>> >> >>
    /\ context.direction = "left"
    /\ basePoint = Zero
    /\ shaped.op = "_update"
    /\ shaped.progress = One
    /\ mesh[<<"line", 0, "end", "x">>] = Int2Num(10)
    /\ mesh[<<"line", 1, "end", "y">>] = Int2Num(10)


\* the public easing functions of the library that the model carries
PublicEasings == {"linear", "in_quad", "out_quad"}

\* C17: a primitive constructed with an easing name that is not the name of a
\* public easing function eases linearly: its transition applied to a
\* progress gives that progress.
C17_OtherNamesAreLinear ==
    (shaped.op = "_update" /\ context.transition \notin PublicEasings) =>
        shaped.result = shaped.progress

\* the same for the names that are no member of AnimationTransition at all
C17_AbsentNamesAreLinear ==
    (shaped.op = "_update"
        /\ context.transition \notin OwnMembers \cup InheritedMembers) =>
        shaped.result = shaped.progress

\* a primitive with the easing name "wobble" has been updated at progress 1/2
C17_WitnessOfAbsentNames ==
    /\ shaped.op = "_update"
    /\ context.transition = "wobble"
    /\ shaped.progress = Num(1, 2)
    /\ shaped.result = Num(1, 2)

\* C16 for the shapes whose easing name is a public easing function or no
\* member of AnimationTransition
C16_DirectionalRevealOfEasings ==
    context.transition \in PublicEasings \cup {"wobble"} => C16_DirectionalReveal


\* the renders that filled the shapes: the frames on which fillUpShapes drew
Filled(frame) == \E i \in 1..Len(frame.layers) : frame.layers[i] = "fill"

\* C18: every render made with fill enabled in which the shapes are filled,
\* the static draw and every such frame of a generated animation, draws the
\* strokes after the fills.
C18_StrokesOverFills ==
    (sampled.op \in {"generate", "draw"} /\ sampled.fill) =>
        \A i \in 1..Len(frames) :
            Filled(frames[i]) => frames[i].layers = <<"fill", "strokes">>

\* the same for the static draw and for every frame but the last of a
\* generated animation that has primitives
C18_StrokesOverFillsBeforeLast ==
    (sampled.op \in {"generate", "draw"} /\ sampled.fill) =>
        \A i \in 1..Len(frames) :
            (Filled(frames[i])
                /\ (sampled.op = "draw" \/ (animList # <<>> /\ i < Len(frames))))
                => frames[i].layers = <<"fill", "strokes">>

\* a static draw with fill, and a filled frame before the last of an animation
C18_WitnessBeforeLast ==
    /\ sampled.op \in {"generate", "draw"}
    /\ sampled.fill
    /\ \/ sampled.op = "draw"
       \/ animList # <<>> /\ \E i \in 1..(Len(frames) - 1) : Filled(frames[i])


(***************************************************************************)
(* Kivg.draw with animate and handDraw: the hand overlay and the load of   *)
(* its image.  draw runs to completion; the onload and onerror callbacks   *)
(* of the image run as later tasks of the event loop.                      *)
(***************************************************************************)
\* primitives of which only "a" animates the end point of a line
HandOptionChoices ==
    {[a |-> [d |-> Int2Num(1), t |-> "linear", props |-> ("l_end_x" :> Int2Num(10))],
      b |-> [d |-> Int2Num(1), t |-> "in_quad", props |-> ("x" :> Int2Num(0))],
      c |-> [d |-> Num(1, 2), t |-> "out_quad", props |-> ("y" :> Int2Num(4))]]}

HandAnimLists == {<<>>, <<"a">>, <<"a", "b">>, <<"b", "a">>}

\* the widget holds the end point of the line, or its x alone
HandHolders ==
    { InitialHolder @@ ("l_end_x" :> Zero) @@ ("l_end_y" :> Int2Num(5)),
      InitialHolder @@ ("l_end_x" :> Zero) }

HandInit ==
    /\ options \in HandOptionChoices
    /\ animType \in {"seq", "par"}
    /\ kind = [n \in Comps |-> animType]
    /\ animList \in HandAnimLists
    /\ holder \in HandHolders
    /\ initialValues = InitialValuesOf(animList, holder)
    /\ sampled = NoSample
    /\ frames = <<>>
    /\ handOverlay = NoOverlay
    /\ overlaid = <<>>
    /\ EngineInit
    /\ OthersIdle

\* Kivg.draw(svg, { animate: true, handDraw, fill, fps }): a new HandOverlay
\* starts loading its image when handDraw is set, then the frames are
\* generated in the same call
DrawAnimated(handDraw, fill, fps) ==
    GenerateWith(IF handDraw THEN [enabled |-> TRUE, state |-> "loading"] ELSE NoOverlay,
                 "drawAnimated", fill, fps)

\* img.onload: the image is converted and scaled, or the conversion throws
OnLoad(converted) ==
    /\ handOverlay.state = "loading"
    /\ handOverlay' = [handOverlay EXCEPT !.state = IF converted THEN "loaded" ELSE "failed"]
    /\ UNCHANGED <<kind, options, calls, engineVars, otherVars, animList, animType,
                   holder, initialValues, sampled, frames, overlaid>>

\* img.onerror
OnError ==
    /\ handOverlay.state = "loading"
    /\ handOverlay' = [handOverlay EXCEPT !.state = "failed"]
    /\ UNCHANGED <<kind, options, calls, engineVars, otherVars, animList, animType,
                   holder, initialValues, sampled, frames, overlaid>>

HandNext ==
    \/ \E handDraw \in BOOLEAN, fill \in BOOLEAN, fps \in 1..MaxFps :
            DrawAnimated(handDraw, fill, fps)
    \/ \E fill \in BOOLEAN, fps \in 1..MaxFps : GenerateFrames(fill, fps)
    \/ \E fill \in BOOLEAN : DrawStatic(fill)
    \/ \E converted \in BOOLEAN : OnLoad(converted)
    \/ OnError

SpecHand == HandInit /\ [][HandNext]_vars

\* the frames the hand belongs on: the time lies in the stroke phase and a
\* current drawing position exists
HandExpected(i) ==
    /\ RLess(frames[i].time, strokeDuration(animList, animType))
    /\ _getCurrentDrawingPosition(frames[i].widget, animList, frames[i].idx, animType) # Null

\* C19: after draw with animate and handDraw, the hand is overlaid on exactly
\* the generated frames whose time lies in the stroke phase and for which a
\* current drawing position exists, whenever the load callback runs.
C19_HandOnStrokeFrames ==
    (sampled.op = "drawAnimated" /\ handOverlay.enabled) =>
        \A i \in 1..Len(frames) : overlaid[i] <=> HandExpected(i)

\* no frame of the fill phase and no frame without a drawing position ever
\* carries the hand
C19_HandOnlyOnStrokeFrames ==
    \A i \in 1..Len(overlaid) : overlaid[i] => HandExpected(i)

\* a generation that found the image loaded overlaid the hand on exactly the
\* frames it belongs on
C19_HandOnceLoaded ==
    (\E i \in 1..Len(overlaid) : overlaid[i]) =>
        \A i \in 1..Len(frames) : overlaid[i] <=> HandExpected(i)

\* frames were generated with the image loaded: one carries the hand, and a
\* frame of the fill phase does not
C19_WitnessOnceLoaded ==
    /\ sampled.op = "generate"
    /\ sampled.fill
    /\ \E i \in 1..Len(overlaid) : overlaid[i]
    /\ \E i \in 1..Len(overlaid) : ~overlaid[i]

(***************************************************************************)
(* parsePath on d strings that mix smooth cubics with the other curves.    *)
(***************************************************************************)
MaxCurveCommands == 3

\* the commands of a d string of curves; each one pushes one element
CurveCommands ==
    {[letter |-> "Z", c |-> "1.5"]}
    \cup {[letter |-> l, c |-> c] : l \in {"M", "L", "C", "S", "s", "Q", "T"},
                                    c \in {"1.5", "-2"}}

CurveLists == UNION {[1..len -> CurveCommands] : len \in 1..MaxCurveCommands}

CurveInit ==
    /\ \E cmds \in CurveLists :
            /\ pathString = String(Write(cmds, 1, " "))
            /\ written = cmds
    /\ elements = <<>>
    /\ paths = <<>>
    /\ parsed = [op |-> "none", raised |-> FALSE]
    /\ strokes = NotStroked
    /\ options \in OptionChoices
    /\ kind = [n \in Comps |-> "seq"]
    /\ EngineInit
    /\ SamplerIdle
    /\ ComposeIdle
    /\ ShapeIdle

SpecCurves == CurveInit /\ [][ParserNext]_vars

\* the written commands that are smooth cubics
IsSmoothCubic(k) == written[k].letter \in {"S", "s"}

\* the commands before command k of the given letters
Preceding(k, letters) == {j \in 1..(k - 1) : written[j].letter \in letters}

\* the last of a set of command positions
LastOf(positions) == CHOOSE j \in positions : \A i \in positions : i <= j

\* 2 * current - control
Reflected(current, control) ==
    point(NSub(NMul(Int2Num(2), current.x), control.x),
          NSub(NMul(Int2Num(2), current.y), control.y))

\* control1 of the smooth cubic written as command k is the reflection of
\* control2 of the last cubic among the commands of the given letters, or
\* the current point when none of them precedes it
ReflectsLastOf(k, letters) ==
    IF Preceding(k, letters) = {}
    THEN elements[k].control1 = elements[k].start
    ELSE elements[k].control1 =
            Reflected(elements[k].start, elements[LastOf(Preceding(k, letters))].control2)

\* C21: control1 of every S/s segment is 2 * current - prevControl2 with
\* prevControl2 the second control point of the previous C/S curve, and the
\* current point when no C or S command precedes it, whatever else does.
C21_SmoothReflection ==
    (parsed.op # "none" /\ Len(elements) = Len(written)) =>
        \A k \in 1..Len(written) :
            IsSmoothCubic(k) => ReflectsLastOf(k, {"C", "S", "s"})

\* the same for the S/s segments with no Q or T command after the last C/S
\* command before them
C21_SmoothReflectionAfterCubics ==
    (parsed.op # "none" /\ Len(elements) = Len(written)) =>
        \A k \in 1..Len(written) :
            (/\ IsSmoothCubic(k)
             /\ \A q \in Preceding(k, {"Q", "T"}) :
                    \E j \in Preceding(k, {"C", "S", "s"}) : q < j)
            => ReflectsLastOf(k, {"C", "S", "s"})

\* an S after a C with a line between them, and an S that opens the curves
C21_WitnessAfterCubics ==
    /\ parsed.op = "parsePath"
    /\ Len(elements) = 3
    /\ \/ written[1].letter = "C" /\ written[2].letter = "L" /\ written[3].letter = "S"
       \/ written[1].letter = "M" /\ written[2].letter = "s" /\ written[3].letter = "S"

(***************************************************************************)
(* Primitives constructed with a duration that is not positive.            *)
(***************************************************************************)
\* constructor options with d of primitive a zero, negative or positive
DurationChoices ==
    {[a |-> [d |-> da, t |-> "linear", props |-> ("x" :> Int2Num(10))],
      b |-> [d |-> Int2Num(-1), t |-> "in_quad", props |-> ("x" :> Int2Num(0))],
      c |-> [d |-> Int2Num(1), t |-> "linear",
             props |-> ("pos" :> Arr(<<Int2Num(2), Int2Num(4)>>))]] :
        da \in {Zero, Int2Num(-1), Int2Num(2)}}

DurationInit ==
    /\ kind = [n \in Comps |-> "seq"]
    /\ options \in DurationChoices
    /\ EngineInit
    /\ SamplerIdle
    /\ OthersIdle

DurationNext ==
    \/ \E n \in {"a", "b"} : CallStart(n, "w1")
    \/ \E n \in {"a", "b"}, dt \in 0..MaxDt : CallUpdate(n, dt, "w1")
    \/ Tick

SpecDurations == DurationInit /\ [][DurationNext]_vars

\* the last call advanced a primitive that held a session on the widget
Advanced(n) == last.op = "update" /\ last.a = n /\ n \in last.live0

\* the advance reported progress 1 and left every tracked property of the
\* primitive at its target
SnappedToEnd(n) ==
    /\ last.progress = One
    /\ \A key \in DOMAIN AnimatedProperties(n) :
            target[last.w][key] = AnimatedProperties(n)[key]

\* C22: a primitive configured with a duration <= 0, zero included, keeps
\* that duration, and its first advance reports progress 1 with every
\* tracked property at its target.
C22_NonPositiveDurationCompletes ==
    \A n \in Prims :
        (Advanced(n) /\ RLeq(options[n].d, Zero)) =>
            (Duration(n) = options[n].d /\ SnappedToEnd(n))

\* the same for the durations below zero
C22_NegativeDurationCompletes ==
    \A n \in Prims :
        (Advanced(n) /\ RLess(options[n].d, Zero)) =>
            (Duration(n) = options[n].d /\ SnappedToEnd(n))

\* a primitive of negative duration was advanced right after its start
C22_WitnessNegative ==
    /\ Advanced("a")
    /\ options["a"].d = Int2Num(-1)
    /\ target["w1"]["x"] = Int2Num(10)
    /\ "a" \notin instances

(***************************************************************************)
(* Primitives started on a widget that lacks a tracked property.           *)
(***************************************************************************)
\* the widgets, with w1 holding every property or lacking one of them
TargetChoices ==
    {InitialTarget}
    \cup {[InitialTarget EXCEPT !["w1"] = Remove(@, key)] : key \in {"x", "pos"}}

MissingInit ==
    /\ kind = [n \in Comps |-> "seq"]
    /\ options \in OptionChoices
    /\ widgets = [n \in Anims |-> NoSessions]
    /\ callbacks = [n \in Anims |-> <<>>]
    /\ instances = {}
    /\ target \in TargetChoices
    /\ now = 0
    /\ reported = [n \in Comps |-> [w \in Widgets |-> {}]]
    /\ last = NoCall
    /\ calls = 0
    /\ through = {}
    /\ completions = [n \in Anims |-> 0]
    /\ SamplerIdle
    /\ OthersIdle

MissingNext ==
    \/ \E n \in {"a", "c"} : CallStart(n, "w1")
    \/ \E n \in {"a", "c"}, dt \in 0..MaxDt : CallUpdate(n, dt, "w1")
    \/ Tick

SpecMissing == MissingInit /\ [][MissingNext]_vars

\* a zero value of the shape of a target value
ZeroOf(to) == IF to.k = "arr" THEN Arr([i \in 1..Len(to.v) |-> Zero]) ELSE Zero

\* the step is an advance of primitive n on a widget it has a session on
Advances(n) ==
    /\ last'.op = "update"
    /\ last'.a = n
    /\ calls' = calls + 1
    /\ Has(Current, n, last'.w)

\* the value the advance wrote for key is the interpolation from start value
\* from, at the eased progress it reported
WroteFrom(n, key, from) ==
    target'[last'.w][key] =
        _calculate(from, AnimatedProperties(n)[key], Transition(n, last'.progress))

\* C23: when a tracked property was absent on the target at start, every
\* advance writes the interpolation between a zero value of the target's
\* shape and the target value, never undefined or not-a-number.
C23_MissingStartsFromZero ==
    [][\A n \in Prims : Advances(n) =>
          \A key \in DOMAIN AnimatedProperties(n) :
              LET from == widgets[n][last'.w].properties[key].from
              IN  WroteFrom(n, key, IF from = Undefined
                                    THEN ZeroOf(AnimatedProperties(n)[key])
                                    ELSE from)]_vars

\* the same for the tracked properties the target held at start
C23_PresentStartsFromSnapshot ==
    [][\A n \in Prims : Advances(n) =>
          \A key \in DOMAIN AnimatedProperties(n) :
              LET from == widgets[n][last'.w].properties[key].from
              IN  from # Undefined => WroteFrom(n, key, from)]_vars

\* an advance half way through a primitive whose property the target held
C23_WitnessPresent ==
    /\ Advanced("a")
    /\ last.progress = Num(1, 2)
    /\ target["w1"]["x"] = Int2Num(5)
    /\ "pos" \notin DOMAIN target["w1"]

(***************************************************************************)
(* Composites driven through their own start, stop and cancel.             *)
(***************************************************************************)
Children(n) == {anim1(n), anim2(n)}

\* sessions as the variables hold them between two calls
HasSession(n, w) == w \in DOMAIN widgets[n]

\* start, stop and cancel were called on no animation but n
DrivenThrough(n) == through \subseteq {n}

\* the number of times start ran on composite n: each run binds one more
\* listener on its first child
TimesStarted(n) == Len(callbacks[anim1(n)])

MaxDrivenCalls == 6
MaxDrivenTime == 3

\* a call of start, stop or cancel on composite ab, or an advance of one of
\* its children
Drive(op, n) ==
    /\ calls < MaxDrivenCalls
    /\ Commit(CASE op = "start" -> Start(Current, n, "w1")
              [] op = "stop" -> Stop(Current, n, "w1")
              [] op = "cancel" -> Cancel(Current, n, "w1")
              [] OTHER -> _update(Current, n, 0, "w1"),
              op, n, "w1", 0)
    /\ through' = IF op = "update" THEN through ELSE through \cup {n}

DrivenTick ==
    /\ now < MaxDrivenTime
    /\ now' = now + 1
    /\ last' = NoCall
    /\ UNCHANGED <<kind, options, widgets, callbacks, instances, target, reported,
                   calls, through, completions, samplerVars, otherVars>>

DrivenInit ==
    /\ kind \in {k \in [Comps -> {"seq", "par"}] : k["abc"] = "seq"}
    /\ options \in OptionChoices
    /\ EngineInit
    /\ SamplerIdle
    /\ OthersIdle

DrivenNext ==
    \/ Drive("start", "ab")
    \/ Drive("stop", "ab")
    \/ Drive("cancel", "ab")
    \/ \E n \in {"a", "b"} : Drive("update", n)
    \/ DrivenTick

SpecDriven == DrivenInit /\ [][DrivenNext]_vars

\* C24: when start, stop and cancel are called on a composite only and
\* advance on its children, then between calls a composite without a live
\* session on a target has no child with a live session on it, also after it
\* completed and when it was started more than once.
C24_NoChildOutlivesComposite ==
    \A n \in Comps, w \in Widgets :
        (DrivenThrough(n) /\ ~HasSession(n, w)) =>
            \A m \in Children(n) : ~HasSession(m, w)

\* the same for a composite that was started at most once
C24_NoChildOutlivesCompositeStartedOnce ==
    \A n \in Comps, w \in Widgets :
        (DrivenThrough(n) /\ TimesStarted(n) <= 1 /\ ~HasSession(n, w)) =>
            \A m \in Children(n) : ~HasSession(m, w)

\* a composite started once fired its completion when its last running child
\* was advanced to its end
C24_WitnessStartedOnce ==
    /\ DrivenThrough("ab")
    /\ TimesStarted("ab") = 1
    /\ kind["ab"] = "seq"
    /\ last.op = "update" /\ last.a = "b" /\ last.progress = One
    /\ \E i \in 1..Len(last.fired) : last.fired[i].a = "ab"
    /\ \A m \in Anims : ~HasSession(m, "w1")


(***************************************************************************)
(* The global set of active animations.                                    *)
(***************************************************************************)
\* C25: between top-level calls an animation is in the global
\* active-animation set exactly when it has a live session on some target.
C25_ActiveIffLive ==
    \A n \in Anims : n \in instances <=> \E w \in Widgets : HasSession(n, w)


(***************************************************************************)
(* Several targets, and Animation.cancelAll.                               *)
(***************************************************************************)
MaxTargetCalls == 4

\* the loop of cancelAll over Array.from(_animationInstances); cancel only
\* removes, so the order of the copy does not show in the outcome
RECURSIVE CancelEach(_, _, _)
CancelEach(s, todo, w) ==
    IF todo = {} THEN s
    ELSE LET animation == CHOOSE n \in todo : TRUE
         IN  CancelEach(Cancel(s, animation, w), todo \ {animation}, w)

\* Animation.cancelAll(widget), no property names given
cancelAll(s, w) == CancelEach(s, s.instances, w)

\* a top-level call on animation n and target w
TargetCall(op, n, w) ==
    /\ calls < MaxTargetCalls
    /\ Commit(CASE op = "start" -> Start(Current, n, w)
              [] op = "stop" -> Stop(Current, n, w)
              [] op = "cancel" -> Cancel(Current, n, w)
              [] OTHER -> _update(Current, n, 0, w),
              op, n, w, 0)
    /\ through' = IF op = "update" THEN through ELSE through \cup {n}

CallCancelAll(w) ==
    /\ calls < MaxTargetCalls
    /\ Commit(cancelAll(Current, w), "cancelAll", "a", w, 0)
    /\ UNCHANGED through

TargetsInit ==
    /\ kind \in {k \in [Comps -> {"seq", "par"}] : k["abc"] = "seq"}
    /\ options \in OptionChoices
    /\ EngineInit
    /\ SamplerIdle
    /\ OthersIdle

TargetsNext ==
    \/ \E n \in {"a", "ab"}, w \in Widgets : TargetCall("start", n, w)
    \/ \E n \in {"a", "ab"}, w \in Widgets : TargetCall("stop", n, w)
    \/ \E n \in {"a", "ab"}, w \in Widgets : TargetCall("cancel", n, w)
    \/ \E n \in {"a", "b"}, w \in Widgets : TargetCall("update", n, w)
    \/ \E w \in Widgets : CallCancelAll(w)
    \/ Tick

SpecTargets == TargetsInit /\ [][TargetsNext]_vars

\* the same for the primitives
C25_PrimitiveActiveIffLive ==
    \A n \in Prims : n \in instances <=> \E w \in Widgets : HasSession(n, w)

\* a primitive stays active while it runs on a second target
C25_WitnessPrimitive ==
    /\ last.op = "cancel" /\ last.a = "a" /\ last.w = "w1"
    /\ "a" \in last.live0
    /\ HasSession("a", "w2")
    /\ "a" \in instances

\* C26: after cancelAll(target) no animation, primitive or composite, has a
\* live session on the target, whatever calls came before and whatever
\* other targets it runs on.
C26_CancelAllEndsEverySession ==
    last.op = "cancelAll" => \A n \in Anims : ~HasSession(n, last.w)

\* the same for the primitives
C26_CancelAllEndsPrimitives ==
    last.op = "cancelAll" => \A n \in Prims : ~HasSession(n, last.w)

\* cancelAll on one of the two targets a primitive runs on
C26_WitnessPrimitives ==
    /\ last.op = "cancelAll" /\ last.w = "w1"
    /\ "a" \in last.live0
    /\ HasSession("a", "w2")
    /\ ~HasSession("a", "w1")


(***************************************************************************)
(* A composite made by createAnimationSequence, started once and run to    *)
(* its end.                                                                *)
(***************************************************************************)
\* the on_complete dispatches of animation n among the events of one call
Dispatches(fired, n) == Cardinality({i \in 1..Len(fired) : fired[i].a = n})

\* the outcome of one call, with the dispatches it made added to the count
Record(s, op, n) ==
    /\ widgets' = s.widgets
    /\ callbacks' = s.callbacks
    /\ instances' = s.instances
    /\ target' = s.target
    /\ reported' = s.reported
    /\ last' = [op |-> op, a |-> n, w |-> "w1", dt |-> 0, ret |-> s.ret,
                fired |-> s.fired, started |-> s.started,
                live0 |-> {m \in Anims : HasSession(m, "w1")},
                wrote |-> s.wrote, progress |-> s.progress]
    /\ completions' = [m \in Anims |-> completions[m] + Dispatches(s.fired, m)]
    /\ UNCHANGED <<kind, options, now, calls, samplerVars, otherVars>>

\* start on the composite made of the first two or of all three animations
\* of the list; it is called once
RunStart(n) ==
    /\ through = {}
    /\ \E s \in {Start(Current, n, "w1")} : Record(s, "start", n)
    /\ through' = {n}

\* a child that holds a live session is advanced
RunAdvance(n) ==
    /\ HasSession(n, "w1")
    /\ \E s \in {_update(Current, n, 0, "w1")} : Record(s, "update", n)
    /\ UNCHANGED through

\* the session of primitive n has its clock started and its time not used up
Running(n) ==
    /\ HasSession(n, "w1")
    /\ widgets[n]["w1"].startTime # Null
    /\ RLess(RSub(Clock(now), widgets[n]["w1"].startTime), Duration(n))

\* time passes; the clock steps that no running session can tell from the
\* step before are left out
RunTick ==
    /\ \E n \in Prims : Running(n)
    /\ now' = now + 1
    /\ last' = NoCall
    /\ UNCHANGED <<kind, options, widgets, callbacks, instances, target, reported,
                   calls, through, completions, samplerVars, otherVars>>

\* createAnimationSequence(list, sequential): every composite of the tree is
\* of the one kind
RunInit ==
    /\ kind \in {[n \in Comps |-> k] : k \in {"seq", "par"}}
    /\ options \in OptionChoices
    /\ EngineInit
    /\ SamplerIdle
    /\ OthersIdle

RunNext ==
    \/ \E n \in Comps : RunStart(n)
    \/ \E n \in Prims : RunAdvance(n)
    \/ RunTick

\* the wall clock does not stop while a session is running
SpecRun ==
    /\ RunInit
    /\ [][RunNext]_vars
    /\ WF_vars(RunTick)

\* every child that holds a live session keeps being advanced: again and
\* again it has no session or is the animation the latest call advanced
KeptAdvanced ==
    \A n \in Prims :
        []<>(~HasSession(n, "w1") \/ (last.op = "update" /\ last.a = n))

\* composite n fired its completion once and its tree is at rest
CompletedOnce(n) ==
    /\ completions[n] = 1
    /\ \A m \in {n} \cup Descendants(n) : ~HasSession(m, "w1")

\* C27: a composite made by createAnimationSequence, started once, with its
\* children advanced until they complete and no stop or cancel, eventually
\* fires its completion exactly once, and from then on no animation of the
\* tree has a live session on the target.
C27_RunsToCompletion ==
    \A n \in Comps :
        /\ KeptAdvanced => [](through = {n} => <>[]CompletedOnce(n))
        /\ [](through = {n} => completions[n] <= 1)

\* a sequence of three ran to its end, each child once
C27_Witness ==
    /\ through = {"abc"}
    /\ kind["abc"] = "seq"
    /\ CompletedOnce("abc")
    /\ \A m \in Anims : completions[m] = 1
    /\ target["w1"]["pos"] = Arr(<<Int2Num(2), Int2Num(4)>>)


(***************************************************************************)
(* Sampling the same list again on the same target.                        *)
(***************************************************************************)
ResampleNext == \E step \in 0..MaxSampleSteps : SampleAt(step)

SpecResample == SamplerInit /\ [][ResampleNext]_vars

\* the target after sampling at time t first, on the untouched target
SampledFirst(t) ==
    _updateAnimationState(InitialHolder, animList, t, animType, initialValues).widget

\* C28: the target state after sampling a list at time t depends only on
\* the list, the ordering mode, t and the initial values: after any other
\* samples, earlier or later, it is the state that sampling at t first gives.
C28_SamplingIsMemoryless ==
    sampled.op = "sample" => holder = SampledFirst(sampled.t)

\* the same for the parallel mode, and in the sequential mode for a sample
\* that is the first or follows a sample at a time not after its own that
\* left the target in the state of a first sample
C28_SamplingForwardIsMemoryless ==
    [][(/\ sampled'.op = "sample"
        /\ calls' = calls + 1
        /\ \/ animType = "par"
           \/ sampled.op = "none"
           \/ holder = SampledFirst(sampled.t) /\ RLeq(sampled.t, sampled'.t))
       => holder' = SampledFirst(sampled'.t)]_vars

\* a sequence of three sampled in its first child and then in its third
C28_WitnessForward ==
    /\ sampled.op = "sample" /\ calls = 2
    /\ animType = "seq" /\ animList = <<"a", "b", "c">>
    /\ sampled.idx = 2
    /\ sampled.before # InitialHolder
    /\ sampled.before # holder
    /\ holder = SampledFirst(sampled.t)


(***************************************************************************)
(* AnimationHandler.prepareShapeAnimations over a list of reveal requests. *)
(***************************************************************************)
MaxRequests == 3

\* context.shapeId in context.closedShapes: closedShapes is an object
\* literal, so the members of Object.prototype are in it too
In(shapeId, shapes) == shapeId \in DOMAIN shapes \cup InheritedMembers

\* the properties of the widget that belong to one shape; their names start
\* with the shape id
PropsOf(widget, shapeId) == IF shapeId \in DOMAIN widget THEN widget[shapeId] ELSE NoProps

\* ShapeAnimator.setupAnimation(caller, context) from its first line on: the
\* animation list or null, the caller and the widget it leaves, or the
\* TypeError of _extractPathData on closedShapes[shapeId][pathsKey]
SetupOutcome(raised, anims, clr, widget) ==
    [raised |-> raised, animList |-> anims, caller |-> clr, widget |-> widget]

\* the properties of the caller are named by tuples, the `${shapeId}_tmp` one
\* by the shape id and its suffix
Reset(clr) == Put(Put(clr, <<"prevShapes">>, <<>>), <<"currShape">>, <<>>)

Extracted(clr, widget, shapeId, pd, plan) ==
    SetupOutcome(FALSE, plan.animList, Put(Reset(clr), <<shapeId, "tmp">>, pd),
                 Put(widget, shapeId, plan.widget))

setupShapeAnimations(clr, widget, shapes, ctx) ==
    IF ~In(ctx.shapeId, shapes) THEN SetupOutcome(FALSE, Null, clr, widget)
    ELSE IF ctx.shapeId \notin DOMAIN shapes
    THEN SetupOutcome(TRUE, Null, Reset(clr), widget)
    ELSE IF shapes[ctx.shapeId] = <<>>
    THEN SetupOutcome(FALSE, Null, Reset(clr), widget)
    ELSE Extracted(clr, widget, ctx.shapeId, shapes[ctx.shapeId],
                   setupAnimation(PropsOf(widget, ctx.shapeId), shapes[ctx.shapeId], ctx))

\* one pass of the loop of prepareShapeAnimations, given the outcome of
\* setupShapeAnimations for the request
Planned(st, config, r) ==
    [raised |-> r.raised,
     caller |-> r.caller,
     widget |-> r.widget,
     animationList |-> IF ~r.raised /\ r.animList # Null /\ Len(r.animList) > 0
                       THEN Append(st.animationList,
                                   [id |-> config.id_, count |-> Len(r.animList)])
                       ELSE st.animationList,
     steps |-> Append(st.steps,
                      [id |-> config.id_, raised |-> r.raised,
                       planned |-> r.animList # Null,
                       touched |-> r.caller # st.caller \/ r.widget # st.widget])]

\* the loop over animConfigList; an exception ends it
RECURSIVE PlanLoop(_, _, _, _)
PlanLoop(configs, i, shapes, st) ==
    IF i > Len(configs) \/ st.raised THEN st
    ELSE PlanLoop(configs, i + 1, shapes,
             Planned(st, configs[i],
                 setupShapeAnimations(st.caller, st.widget, shapes,
                     [shapeId |-> configs[i].id_, direction |-> configs[i].from_,
                      transition |-> "linear"])))

prepareShapeAnimations(clr, widget, configs, shapes) ==
    PlanLoop(configs, 1, shapes,
             [raised |-> FALSE, caller |-> clr, widget |-> widget,
              animationList |-> <<>>, steps |-> <<>>])

\* the shape ids of the loaded document and the ids a request may name
LoadedIds == {"s1", "s2"}
RequestIds == LoadedIds \cup {"ghost", "hasOwnProperty"}

\* the sub-paths a loaded shape may have: none, one line, a line and a curve
PlanPathDatas ==
    { <<>>,
      << <<<<Pt(0, 0), Pt(10, 0)>>>> >>,
      << <<<<Pt(0, 0), Pt(10, 0)>>, <<Pt(0, 0), Pt(5, 20), Pt(20, 30), Pt(40, 10)>>>> >> }

Requests == [id_ : RequestIds, from_ : {"left", "none"}]

PlanInit ==
    /\ closedShapes \in {("s1" :> pd) : pd \in PlanPathDatas}
                        \cup {("s1" :> pd @@ "s2" :> << <<<<Pt(0, 0), Pt(10, 0)>>>> >>) :
                                 pd \in PlanPathDatas}
    /\ animConfigList \in UNION {[1..len -> Requests] : len \in 1..MaxRequests}
    /\ caller = NoProps
    /\ planned = NotPlanned
    /\ pathData = <<>>
    /\ context = NoContext
    /\ basePoint = Null
    /\ mesh = NoProps
    /\ shapeAnims = <<>>
    /\ shaped = NotShaped
    /\ options \in OptionChoices
    /\ kind = [n \in Comps |-> "seq"]
    /\ EngineInit
    /\ SamplerIdle
    /\ ComposeIdle
    /\ ParserIdle

\* AnimationHandler.prepareShapeAnimations(caller, widget, animConfigList,
\* closedShapes, ...)
CallPrepareShapeAnimations ==
    \E r \in {prepareShapeAnimations(caller, mesh, animConfigList, closedShapes)} :
        /\ caller' = r.caller
        /\ mesh' = r.widget
        /\ planned' = [op |-> "prepareShapeAnimations", raised |-> r.raised,
                       animationList |-> r.animationList, steps |-> r.steps]
        /\ UNCHANGED <<closedShapes, animConfigList, pathData, context, basePoint,
                       shapeAnims, shaped, kind, options, calls, engineVars,
                       samplerVars, composeVars, parserVars>>

PlanNext == CallPrepareShapeAnimations

SpecPlan == PlanInit /\ [][PlanNext]_vars

\* the requests that name a shape id the loaded geometry does not have
Unknown == {i \in 1..Len(animConfigList) : animConfigList[i].id_ \notin DOMAIN closedShapes}

\* request i was reached and came back with no plan, nothing raised and
\* nothing written on the caller or the target
NoOp(i) ==
    /\ i <= Len(planned.steps)
    /\ ~planned.steps[i].raised
    /\ ~planned.steps[i].planned
    /\ ~planned.steps[i].touched

\* every request was reached, and each one naming a loaded shape with
\* sub-paths has its entry in the returned list
OthersPlanned ==
    /\ ~planned.raised
    /\ Len(planned.steps) = Len(animConfigList)
    /\ [k \in 1..Len(planned.animationList) |-> planned.animationList[k].id]
         = SelectSeq([i \in 1..Len(animConfigList) |-> animConfigList[i].id_],
                     LAMBDA id : id \in DOMAIN closedShapes /\ closedShapes[id] # <<>>)

\* C29: a reveal request naming a shape id that is not in the loaded
\* geometry yields no plan and raises nothing: no primitive is made for it,
\* nothing is written on the target or the caller, and the other requests
\* of the list are still planned.
C29_UnknownShapeIsNoOp ==
    (planned.op # "none" /\ Unknown # {}) =>
        /\ \A i \in Unknown : NoOp(i)
        /\ OthersPlanned

\* the same for the unknown ids that do not name a member every object has
C29_UnknownShapeIsNoOpOfOwnNames ==
    (/\ planned.op # "none"
     /\ Unknown # {}
     /\ \A i \in Unknown : animConfigList[i].id_ \notin InheritedMembers) =>
        /\ \A i \in Unknown : NoOp(i)
        /\ OthersPlanned

\* an unknown id between two requests for loaded shapes, both planned
C29_WitnessOfOwnNames ==
    /\ planned.op = "prepareShapeAnimations"
    /\ Len(animConfigList) = 3
    /\ animConfigList[1].id_ = "s1" /\ animConfigList[2].id_ = "ghost"
    /\ animConfigList[3].id_ = "s2"
    /\ Len(planned.animationList) = 2
    /\ planned.animationList[1].count = 2
    /\ "s2" \in DOMAIN mesh
    /\ "ghost" \notin DOMAIN mesh


(***************************************************************************)
(* The two numberings of the Line and cubic elements of a document: the    *)
(* one of DrawingManager.calculatePaths over the sub-path lists and the    *)
(* one of PathRenderer.updateCanvas over the flat path list.  The sub-path *)
(* lists hold the element objects of the flat list; an element is known by *)
(* its position `at` in the flat list.                                     *)
(***************************************************************************)
MaxStrokeCommands == 5

StrokeCommands ==
    {[letter |-> "M", c |-> "1.5"], [letter |-> "L", c |-> "1.5"],
     [letter |-> "L", c |-> "-2"], [letter |-> "C", c |-> "1.5"],
     [letter |-> "Z", c |-> "1.5"]}

\* the documents: up to MaxStrokeCommands commands, one cubic at most
StrokeLists ==
    {cmds \in UNION {[1..len -> StrokeCommands] : len \in 1..MaxStrokeCommands} :
        Cardinality({k \in 1..Len(cmds) : cmds[k].letter = "C"}) <= 1}

Numbered(elems) == [k \in 1..Len(elems) |-> [type |-> elems[k].type, at |-> k]]

\* the widget property group an element is stored under and drawn from
PropertyOf(e) == IF e.type = "Line" THEN "line" ELSE "bezier"
Drawable(e) == e.type \in {"Line", "CubicBezier"}

\* the loops of calculatePaths over closedShapes[id][id + 'paths']: the
\* elements whose geometry is stored under <prop>0, <prop>1, ... in turn
calculatePaths(subPaths, prop) ==
    SelectSeq(Flatten(subPaths), LAMBDA e : Drawable(e) /\ PropertyOf(e) = prop)

\* the loop of PathRenderer.updateCanvas over the flat path list: for each
\* Line or cubic it meets, the property group and the index it draws from
updateCanvas(pathElements) ==
    LET met == SelectSeq(Numbered(pathElements), Drawable)
    IN  [k \in 1..Len(met) |->
            [at |-> met[k].at, prop |-> PropertyOf(met[k]),
             index |-> Cardinality({j \in 1..k : met[j].type = met[k].type}) - 1]]

StrokeInit ==
    /\ \E cmds \in StrokeLists :
            /\ pathString = String(Write(cmds, 1, " "))
            /\ written = cmds
    /\ elements = <<>>
    /\ paths = <<>>
    /\ parsed = [op |-> "none", raised |-> FALSE]
    /\ strokes = NotStroked
    /\ options \in {CHOOSE o \in OptionChoices : TRUE}
    /\ kind = [n \in Comps |-> "seq"]
    /\ EngineInit
    /\ SamplerIdle
    /\ ComposeIdle
    /\ ShapeIdle

\* DrawingManager.calculatePaths(widget, closedShapes, ...) as Kivg.draw
\* calls it on the closedShapes of processPathData
CallCalculatePaths ==
    /\ parsed.op = "processPathData"
    /\ ~parsed.raised
    /\ \E subPaths \in {CollectPaths(Numbered(elements), 1, FALSE, <<>>, <<>>)} :
        strokes' = [op |-> "calculatePaths",
                    line |-> calculatePaths(subPaths, "line"),
                    bezier |-> calculatePaths(subPaths, "bezier"),
                    drawn |-> strokes.drawn]
    /\ UNCHANGED <<kind, options, calls, engineVars, samplerVars, composeVars,
                   shapeVars, pathString, elements, paths, parsed, written>>

\* Kivg.updateCanvas(): PathRenderer.updateCanvas on this.widget and this.path
CallUpdateCanvas ==
    /\ strokes.op # "none"
    /\ strokes' = [strokes EXCEPT !.op = "updateCanvas",
                                  !.drawn = updateCanvas(elements)]
    /\ UNCHANGED <<kind, options, calls, engineVars, samplerVars, composeVars,
                   shapeVars, pathString, elements, paths, parsed, written>>

StrokeNext == CallProcessPathData \/ CallCalculatePaths \/ CallUpdateCanvas

SpecStroke == StrokeInit /\ [][StrokeNext]_vars

StoredUnder(prop) == IF prop = "line" THEN strokes.line ELSE strokes.bezier

\* the element drawn as d is the one whose geometry is stored under d's index
SameElement(d) ==
    /\ d.index + 1 <= Len(StoredUnder(d.prop))
    /\ StoredUnder(d.prop)[d.index + 1].at = d.at

\* C30: the k-th Line (k-th cubic) the stroke renderer meets in the flat
\* path list is the element whose geometry the path calculation stored
\* under line index k (bezier index k), whatever the sub-paths are: not
\* terminated by Close, following a Close without a Move, closed twice.
C30_NumberingsAgree ==
    strokes.op = "updateCanvas" =>
        \A k \in 1..Len(strokes.drawn) : SameElement(strokes.drawn[k])

\* the Move or Close that precedes element k most closely, if any
MarkerBefore(k) ==
    LET marks == {j \in 1..(k - 1) : elements[j].type \in {"Move", "Close"}}
    IN  IF marks = {} THEN "none"
        ELSE elements[CHOOSE j \in marks : \A i \in marks : i <= j].type

\* every sub-path starts with a Move and ends with one Close or with the
\* Move of the next one
WellClosed ==
    /\ \A k \in 1..Len(elements) :
            elements[k].type # "Move" => MarkerBefore(k) = "Move"
    /\ elements # <<>> => elements[Len(elements)].type \in {"Move", "Close"}

\* the same for the documents whose sub-paths are all closed once
C30_NumberingsAgreeWhenClosed ==
    (strokes.op = "updateCanvas" /\ WellClosed) =>
        \A k \in 1..Len(strokes.drawn) : SameElement(strokes.drawn[k])

\* two sub-paths, a line and a cubic, both stored and both drawn
C30_WitnessWhenClosed ==
    /\ strokes.op = "updateCanvas"
    /\ WellClosed
    /\ Len(paths) = 2
    /\ Len(strokes.drawn) = 2
    /\ Len(strokes.line) = 1
    /\ Len(strokes.bezier) = 1

====
